---------------------------- MODULE Spec2Model ----------------------------
(***************************************************************************)
(* A model of the cricket-news bot: the polling scheduler                  *)
(* (app/scheduler.py), the task registry and the article store             *)
(* (app/mongodb_service.py) and the ingestion pipeline (app/tasks.py).     *)
(*                                                                         *)
(* Time is counted in whole seconds since 00:00 UTC of day 0; a datetime   *)
(* is the number of seconds, an instant between two seconds is not         *)
(* modelled.                                                               *)
(***************************************************************************)
EXTENDS Integers, Sequences, FiniteSets, TLC

VARIABLES
    \* ---- should_run_task evaluated on drawn inputs (DueSpec)
    dueTask,      \* the task document handed to should_run_task
    dueNow,       \* the value of datetime.utcnow() during the call
    dueResult,    \* what the call returned
    duePc,        \* "input" before the call, "evaluated" after it
    \* ---- the scheduler (Spec, FairSpec)
    running,      \* MongoDBScheduler.running
    thread,       \* MongoDBScheduler.thread: 0 is None, else the loop thread's id
    loopPc,       \* per loop thread: "none", "ready", "sleeping", "dead"
    callerPc,     \* the thread calling start()/stop(): "idle" or "joining"
    nStart,       \* history: number of start() calls made so far
    nStop,        \* history: number of stop() calls made so far
    seededAt,     \* history: clock of the latest seeding of the registry
    stoppedAt,    \* history: clock of the latest stop() call
    clock,        \* wall clock, seconds
    ticks,        \* number of 60-second sleeps that have elapsed
    tasksDb,      \* scheduler_tasks collection: name -> task document
    execs,        \* task threads in flight: [name, task, started, by]
    launched,     \* history: every task thread ever started [name, at, by]
    \* ---- the ingestion pipeline and the article store (StoreSpec)
    articles,     \* news_articles collection: <<title, source>> -> document
    nextId,       \* number of ObjectIds the article collection has handed out
    statuses,     \* bot_status collection
    storeNow,     \* datetime.utcnow() of the store operations
    runs,         \* per pipeline run: its place in fetch_and_post_cricket_news
    saveLog,      \* history: the save_article calls that returned [run, key, upserted, id, doc, at]
    deliveries,   \* history: the articles handed to the Telegram client [run, j, key, ok]
    \* ---- the news_articles collection under concurrent callers (CollSpec)
    coll,         \* the documents of the collection [id, title, source, posted_at, is_posted]
    collNextId,   \* number of ObjectIds handed out
    collNow,      \* datetime.utcnow(), in days
    collTicks,    \* number of times collNow has moved on
    calls,        \* per caller: the update_one(upsert=True) it has under way
    purged,       \* what the latest cleanup_old_articles returned, and when [at, count]
    \* ---- one invocation of fetch_and_post_cricket_news, faults included (PipeSpec)
    pipePc,       \* where the invocation is
    rss,          \* what the ESPN feed holds for this invocation
    before,       \* history: the two collections as the invocation found them
    stored,       \* news_articles collection: <<title, source>> -> document
    bot_status,   \* bot_status collection, in order of insertion
    fetched,      \* the local `articles`
    new_articles, \* the local `new_articles`
    idx,          \* position of the loop under way
    posted_count, \* what post_articles has counted
    error,        \* str(e) of the exception raised, "None" if none
    trace,        \* history: the calls made, in order [op, key, fault, ret]
    returned,     \* what the invocation returned, or that it raised
    \* ---- one call of NewsFetcher.fetch_cricket_news (FetchSpec)
    fetchPc,      \* where the call is
    entries,      \* feed.entries: the number of entries, None when the parse raised
    fetchI,       \* the entry the loop is at, counted from 1
    fetchArticles,\* the local `articles`: [entry, image_url, description]
    \* ---- one call of TelegramBot.send_photo or send_message (CapSpec)
    capPc,        \* "input" before the call, "posted" once the payload is handed to requests.post
    capArticle,   \* the article: the lengths of its title, description and link, and its image
    capPayload,   \* the caption or text of the payload
    \* ---- run_task under faults, next to manual calls (TaskSpec)
    attempts,     \* history: how the run_task call that ended last went [outcome, taken]
    manual        \* history: the latest call made from outside the scheduler

dueVars   == <<dueTask, dueNow, dueResult, duePc>>
schedVars == <<running, thread, loopPc, callerPc, nStart, nStop, seededAt, stoppedAt,
               clock, ticks, tasksDb, execs, launched>>
storeVars == <<articles, nextId, statuses, storeNow, runs, saveLog, deliveries>>
collVars  == <<coll, collNextId, collNow, collTicks, calls, purged>>
pipeVars  == <<pipePc, rss, before, stored, bot_status, fetched, new_articles, idx,
               posted_count, error, trace, returned>>
fetchVars == <<fetchPc, entries, fetchI, fetchArticles>>
capVars   == <<capPc, capArticle, capPayload>>
taskVars  == <<attempts, manual>>
unitVars  == <<fetchVars, capVars, taskVars>>
vars      == <<dueVars, schedVars, storeVars, collVars, pipeVars, unitVars>>

-----------------------------------------------------------------------------
(* Bounds of the model *)

\* number of start()/stop() calls the caller makes
MaxCalls == 3
\* number of loop threads that can ever be created
MaxThreads == 2
\* number of 60-second ticks the scheduler is followed for
MaxTicks == 5
\* a task execution ends within this many ticks of its launch
MaxLatency == 1
\* days over which should_run_task's clock input ranges
DueDays == 1
\* number of pipeline runs (scheduled or triggered by hand)
MaxRuns == 2
\* number of times the store's clock moves on
MaxStoreTime == 1
\* number of articles the feed returns to one invocation
MaxFeed == 2
\* number of callers that use the news_articles collection at once
MaxCallers == 2
\* number of documents ever inserted into the collection
MaxInserts == 2
\* number of times the collection's clock moves on
MaxCollTicks == 2

-----------------------------------------------------------------------------
(* Datetimes *)

\* the value None of a nullable datetime
None == -1

\* seconds per minute, as in `50 * 60`
Minute == 60
Hour   == 60 * Minute
Day    == 24 * Hour

Abs(x) == IF x < 0 THEN 0 - x ELSE x

\* datetime.replace(second=0, microsecond=0)
TruncateToMinute(t) == t - (t % Minute)

\* datetime.replace(hour=h, minute=m) of a datetime truncated to the minute
ReplaceHourMinute(t, h, m) == (t \div Day) * Day + h * Hour + m * Minute

-----------------------------------------------------------------------------
(* The task registry: MongoDBService.setup_scheduled_tasks *)

TwoDigits(h) ==
    <<"00", "01", "02", "03", "04", "05", "06", "07", "08", "09", "10", "11",
      "12", "13", "14", "15", "16", "17", "18", "19", "20", "21", "22", "23">>[h + 1]

\* f'cricket_news_hour_{hour:02d}'
HourlyName(h) == "cricket_news_hour_" \o TwoDigits(h)

CleanupName == "cleanup_old_articles_daily"

HourlyTask(h) ==
    [name     |-> HourlyName(h),
     task     |-> "fetch_and_post_cricket_news",
     schedule |-> [hour |-> h, minute |-> 0],
     enabled  |-> TRUE,
     last_run |-> None]

CleanupTask ==
    [name     |-> CleanupName,
     task     |-> "cleanup_old_articles",
     schedule |-> [hour |-> 3, minute |-> 0],
     enabled  |-> TRUE,
     last_run |-> None]

\* the list `tasks` built by setup_scheduled_tasks
SeedTasks == {HourlyTask(h) : h \in 0..23} \cup {CleanupTask}

SeedNames == {t.name : t \in SeedTasks}

SeedTask(n) == CHOOSE t \in SeedTasks : t.name = n

\* update_one({'name': n}, {'$setOnInsert': task}, upsert=True) of one task:
\* the document is written only when no document has the name
UpsertTaskResettingLastRun(db, t) ==
    IF t.name \in DOMAIN db
    THEN [n \in DOMAIN db |-> IF n = t.name THEN [db[n] EXCEPT !.last_run = None]
                                             ELSE db[n]]
    ELSE [n \in DOMAIN db \cup {t.name} |-> IF n = t.name THEN t ELSE db[n]]

UpsertTask(db, t) ==
    IF t.name \in DOMAIN db
    THEN db
    ELSE [n \in DOMAIN db \cup {t.name} |-> IF n = t.name THEN t ELSE db[n]]

\* the loop `for task in tasks: update_one(...)`: the upserts touch distinct
\* names, so their order is immaterial
setup_scheduled_tasks(db) ==
    [n \in DOMAIN db \cup SeedNames |->
        IF n \in SeedNames THEN UpsertTask(db, SeedTask(n))[n] ELSE db[n]]

\* scheduler_collection.find({'enabled': True})
get_scheduled_tasks(db) == {db[n] : n \in {m \in DOMAIN db : db[m].enabled}}

-----------------------------------------------------------------------------
(* MongoDBScheduler.should_run_task *)

\* 'cleanup' in task_name, over the names the registry can hold
NameHasCleanup(name) == name = CleanupName

ToleranceSeconds == 120

HourlyMinInterval == 50 * 60
DailyMinInterval  == 23 * 3600

\* a daily interval longer than the day
min_interval_over_a_day(name) ==
    IF NameHasCleanup(name) THEN 25 * 3600 ELSE HourlyMinInterval

min_interval(name) ==
    IF NameHasCleanup(name) THEN DailyMinInterval ELSE HourlyMinInterval

time_diff(task, utcnow) ==
    LET now       == TruncateToMinute(utcnow)
        task_time == ReplaceHourMinute(now, task.schedule.hour, task.schedule.minute)
    IN  Abs(now - task_time)

\* a tolerance of five minutes instead of two
OutsideToleranceWide(diff) == diff > 300

\* if time_diff > 120: return False
OutsideTolerance(diff) == diff > ToleranceSeconds

\* a run exactly min_interval ago still blocks the task
TooSoonInclusive(elapsed, name) == elapsed <= min_interval(name)

\* if (now - last_run_dt).total_seconds() < min_interval: return False
TooSoon(elapsed, name) == elapsed < min_interval(name)

should_run_task(task, utcnow) ==
    LET now == TruncateToMinute(utcnow)
    IN  IF OutsideTolerance(time_diff(task, utcnow))
        THEN FALSE
        ELSE IF task.last_run # None /\ TooSoon(now - task.last_run, task.name)
             THEN FALSE
             ELSE TRUE

-----------------------------------------------------------------------------
(* DueSpec: should_run_task on drawn inputs *)

\* datetime.utcnow() ranges over every minute of DueDays days starting at
\* day 1, on the minute and half a minute past it
DueNows == {Day + m * Minute + s : m \in 0..(DueDays * 24 * 60 - 1), s \in {0, 30}}

\* last_run is None or lies this many seconds before the truncated clock
DueElapsed == {0,
               HourlyMinInterval - 1, HourlyMinInterval, HourlyMinInterval + 1,
               DailyMinInterval - 1, DailyMinInterval, DailyMinInterval + 1}

DueLastRuns(utcnow) ==
    {None} \cup {TruncateToMinute(utcnow) - e : e \in DueElapsed}

RunIds == 1..MaxRuns

\* a pipeline run that has not been invoked
IdleRun ==
    [pc |-> "idle", articles |-> << >>, i |-> 0, new_articles |-> << >>,
     posted_count |-> 0, posted_at |-> None, result |-> "none"]

\* an empty database and no pipeline run
StoreIdle ==
    /\ articles = << >>
    /\ nextId = 0
    /\ statuses = {}
    /\ storeNow = 0
    /\ runs = [r \in RunIds |-> IdleRun]
    /\ saveLog = {}
    /\ deliveries = {}

\* no call of fetch_cricket_news under way
FetchIdle ==
    /\ fetchPc = "idle"
    /\ entries = 0
    /\ fetchI = 0
    /\ fetchArticles = << >>

\* no payload being built
CapIdle ==
    /\ capPc = "idle"
    /\ capArticle = [title |-> 0, description |-> 0, link |-> 0, image_url |-> FALSE]
    /\ capPayload = << >>

\* no run_task call
NoAttempt == [outcome |-> "None", taken |-> FALSE]

\* no run_task call has ended and nothing was called from outside
TaskIdle ==
    /\ attempts = NoAttempt
    /\ manual = "None"

\* none of the single calls under way
UnitIdle == FetchIdle /\ CapIdle /\ TaskIdle

\* callers of the news_articles collection
CallerIds == 1..MaxCallers

\* a caller with no operation under way
NoCall == [pc |-> "idle", title |-> "None", source |-> "None", posted_at |-> None]

\* an empty news_articles collection on day 0, nobody using it
CollIdle ==
    /\ coll = {}
    /\ collNextId = 0
    /\ collNow = 0
    /\ collTicks = 0
    /\ calls = [c \in CallerIds |-> NoCall]
    /\ purged = [at |-> None, count |-> 0]

\* no result yet
NoResult == [status |-> "None", message |-> "None", articles_posted |-> None]

\* no invocation of the pipeline under way
PipeIdle ==
    /\ pipePc = "idle"
    /\ rss = << >>
    /\ before = [stored |-> << >>, bot_status |-> << >>]
    /\ stored = << >>
    /\ bot_status = << >>
    /\ fetched = << >>
    /\ new_articles = << >>
    /\ idx = 0
    /\ posted_count = 0
    /\ error = "None"
    /\ trace = << >>
    /\ returned = NoResult

SchedIdle ==
    /\ running = FALSE
    /\ thread = 0
    /\ loopPc = [l \in 1..MaxThreads |-> "none"]
    /\ callerPc = "idle"
    /\ nStart = 0
    /\ nStop = 0
    /\ seededAt = None
    /\ stoppedAt = None
    /\ clock = 0
    /\ ticks = 0
    /\ tasksDb = << >>
    /\ execs = {}
    /\ launched = {}

DueInit ==
    /\ dueNow \in DueNows
    /\ \E t \in SeedTasks : \E lr \in DueLastRuns(dueNow) :
           dueTask = [t EXCEPT !.last_run = lr]
    /\ dueResult = FALSE
    /\ duePc = "input"
    /\ SchedIdle
    /\ StoreIdle
    /\ CollIdle
    /\ PipeIdle
    /\ UnitIdle

\* one call of should_run_task(task)
Evaluate ==
    /\ duePc = "input"
    /\ dueResult' = should_run_task(dueTask, dueNow)
    /\ duePc' = "evaluated"
    /\ UNCHANGED <<dueTask, dueNow, schedVars, storeVars, collVars, pipeVars, unitVars>>

DueNext == Evaluate

DueSpec == DueInit /\ [][DueNext]_vars

-----------------------------------------------------------------------------
(* Due-ness: claims C3, C4, C5 *)

\* seconds between the current minute and the task's (hour, minute) on the
\* 24-hour clock, the shorter way round
ClockDistance(task, utcnow) ==
    LET tod   == TruncateToMinute(utcnow) % Day
        sched == task.schedule.hour * Hour + task.schedule.minute * Minute
        d     == Abs(tod - sched)
    IN  IF d <= Day - d THEN d ELSE Day - d

DueElapsedNow == TruncateToMinute(dueNow) - dueTask.last_run

\* the minimum spacing as the specification states it
Spacing(task) == IF task.name = CleanupName THEN 23 * 3600 ELSE 50 * 60

\* C3: a task with no last-run is due at every whole minute from 2 minutes
\* before to 2 minutes after its scheduled time on the 24-hour clock, also
\* when that window crosses midnight.
C3_DueInsideWindowAcrossMidnight ==
    (duePc = "evaluated" /\ dueTask.last_run = None
        /\ ClockDistance(dueTask, dueNow) <= 2 * Minute)
    => dueResult = TRUE

\* C4: a task is never due more than 2 minutes away from its scheduled time,
\* whatever its last-run; the 10:00 task with no last-run is due from 09:59
\* to 10:02.
C4_NeverDueOutsideTolerance ==
    duePc = "evaluated" =>
        /\ ClockDistance(dueTask, dueNow) > 2 * Minute => dueResult = FALSE
        /\ (dueTask.schedule.hour = 10 /\ dueTask.last_run = None
                /\ TruncateToMinute(dueNow) % Day \in
                      {9 * Hour + 59 * Minute, 10 * Hour, 10 * Hour + Minute,
                       10 * Hour + 2 * Minute})
           => dueResult = TRUE

\* the 10:00 ingestion task, never run, evaluated at 10:05: not due
C4_Witness ==
    /\ duePc = "evaluated"
    /\ dueTask.name = HourlyName(10)
    /\ dueTask.last_run = None
    /\ TruncateToMinute(dueNow) % Day = 10 * Hour + 5 * Minute
    /\ dueResult = FALSE

-----------------------------------------------------------------------------
(* The scheduler: MongoDBScheduler.start, stop, scheduler_loop, run_task *)

\* time.sleep(60)
TickSeconds == 60

LoopIds == 1..MaxThreads

Alive(l) == loopPc[l] \in {"ready", "sleeping"}

AliveLoops == {l \in LoopIds : Alive(l)}

\* the id the next threading.Thread gets
NextThread == Cardinality({l \in LoopIds : loopPc[l] # "none"}) + 1

\* start() that never takes the early exit
StartNeverNoOp == FALSE

\* `if not self.running:` fails: start() does nothing
StartIsNoOp == running

\* start(): when not running, set the flag, seed the registry, create the
\* loop thread and start it; a thread that cannot be started clears the flag
\* and leaves the unstarted Thread object in self.thread
Start ==
    /\ callerPc = "idle"
    /\ nStart + nStop < MaxCalls
    /\ nStart' = nStart + 1
    /\ IF StartIsNoOp
       THEN UNCHANGED <<running, thread, loopPc, tasksDb, seededAt>>
       ELSE /\ NextThread \in LoopIds
            /\ tasksDb' = setup_scheduled_tasks(tasksDb)
            /\ seededAt' = clock
            /\ thread' = NextThread
            /\ \E started \in BOOLEAN :
                  /\ running' = started
                  /\ loopPc' = [loopPc EXCEPT ![NextThread] =
                                   IF started THEN "ready" ELSE "unstarted"]
    /\ UNCHANGED <<callerPc, nStop, stoppedAt, clock, ticks, execs, launched, dueVars,
                   storeVars, collVars, pipeVars, unitVars>>

\* stop(): clear the flag, then join self.thread if there is one; joining a
\* thread that was never started raises at once
Stop ==
    /\ callerPc = "idle"
    /\ nStart + nStop < MaxCalls
    /\ ticks < MaxTicks
    /\ nStop' = nStop + 1
    /\ stoppedAt' = clock
    /\ running' = FALSE
    /\ callerPc' = IF thread # 0 /\ loopPc[thread] # "unstarted"
                   THEN "joining" ELSE "idle"
    /\ UNCHANGED <<thread, loopPc, nStart, seededAt, clock, ticks, tasksDb,
                   execs, launched, dueVars, storeVars, collVars, pipeVars, unitVars>>

\* a join that does not wait for the thread
JoinReturnsAtOnce == TRUE

\* self.thread.join() returns once the loop thread has ended
JoinReturns == loopPc[thread] = "dead"

\* stop() returns to its caller
StopReturn ==
    /\ callerPc = "joining"
    /\ JoinReturns
    /\ callerPc' = "idle"
    /\ UNCHANGED <<running, thread, loopPc, nStart, nStop, seededAt, stoppedAt, clock, ticks,
                   tasksDb, execs, launched, dueVars, storeVars, collVars, pipeVars, unitVars>>

\* the tasks one iteration of the loop finds due
DueTasks == {t \in get_scheduled_tasks(tasksDb) : should_run_task(t, clock)}

\* one pass of `while self.running:` by loop thread l, up to its sleep: with
\* the flag set, read the enabled tasks and start a thread for each due one;
\* with the flag cleared, leave the loop
LoopStep(l) ==
    /\ loopPc[l] = "ready"
    /\ IF running
       THEN /\ loopPc' = [loopPc EXCEPT ![l] = "sleeping"]
            /\ execs' = execs \cup
                  {[name |-> t.name, task |-> t.task, started |-> clock, by |-> l]
                     : t \in DueTasks}
            /\ launched' = launched \cup
                  {[name |-> t.name, at |-> clock, by |-> l] : t \in DueTasks}
       ELSE /\ loopPc' = [loopPc EXCEPT ![l] = "dead"]
            /\ UNCHANGED <<execs, launched>>
    /\ UNCHANGED <<running, thread, callerPc, nStart, nStop, seededAt, stoppedAt, clock, ticks,
                   tasksDb, dueVars, storeVars, collVars, pipeVars, unitVars>>

\* a replacement of the document instead of a $set of one field
replace_task_last_run(db, name, now) ==
    [n \in DOMAIN db |->
        IF n = name
        THEN [db[n] EXCEPT !.last_run = now, !.enabled = FALSE]
        ELSE db[n]]

\* update_one({'name': task_name}, {'$set': {'last_run': datetime.utcnow()}})
update_task_last_run(db, name, now) ==
    [n \in DOMAIN db |-> IF n = name THEN [db[n] EXCEPT !.last_run = now] ELSE db[n]]

\* run_task of a known task comes to its end: the routine has returned or
\* raised, and last_run is set to the time of the end
ExecFinish(e) ==
    /\ e \in execs
    /\ e.task \in {"fetch_and_post_cricket_news", "cleanup_old_articles"}
    /\ tasksDb' = update_task_last_run(tasksDb, e.name, clock)
    /\ execs' = execs \ {e}
    /\ UNCHANGED <<running, thread, loopPc, callerPc, nStart, nStop, seededAt, stoppedAt,
                   clock, ticks, launched, dueVars, storeVars, collVars, pipeVars, unitVars>>

\* sixty seconds pass: every sleeping loop thread wakes up.  The pass of a
\* loop takes no time on this scale, and a task thread ends within
\* MaxLatency ticks of its start.
Advance ==
    /\ ticks < MaxTicks
    /\ \A l \in LoopIds : loopPc[l] # "ready"
    /\ \A e \in execs : (clock + TickSeconds) - e.started <= MaxLatency * TickSeconds
    /\ clock' = clock + TickSeconds
    /\ ticks' = ticks + 1
    /\ loopPc' = [l \in LoopIds |-> IF loopPc[l] = "sleeping" THEN "ready" ELSE loopPc[l]]
    /\ UNCHANGED <<running, thread, callerPc, nStart, nStop, seededAt, stoppedAt, tasksDb,
                   execs, launched, dueVars, storeVars, collVars, pipeVars, unitVars>>

\* the process comes up on day 1 three minutes before 03:00 (both the
\* ingestion and the cleanup task are scheduled then), before 10:00 and
\* before midnight, or at 10:00 sharp
StartClocks ==
    {Day + h * Hour + 57 * Minute : h \in {2, 9, 23}} \cup {Day + 10 * Hour}

Init ==
    /\ running = FALSE
    /\ thread = 0
    /\ loopPc = [l \in LoopIds |-> "none"]
    /\ callerPc = "idle"
    /\ nStart = 0
    /\ nStop = 0
    /\ seededAt = None
    /\ stoppedAt = None
    /\ clock \in StartClocks
    /\ ticks = 0
    /\ tasksDb = << >>
    /\ execs = {}
    /\ launched = {}
    /\ dueTask = CleanupTask
    /\ dueNow = 0
    /\ dueResult = FALSE
    /\ duePc = "input"
    /\ StoreIdle
    /\ CollIdle
    /\ PipeIdle
    /\ UnitIdle

Next ==
    \/ Start
    \/ Stop
    \/ StopReturn
    \/ \E l \in LoopIds : LoopStep(l)
    \/ \E e \in execs : ExecFinish(e)
    \/ Advance

Spec == Init /\ [][Next]_vars

\* the process comes up three minutes before 10:00
FairInit ==
    /\ Init
    /\ clock = Day + 9 * Hour + 57 * Minute

\* the loop threads and the task threads are scheduled, and time passes
FairSpec ==
    /\ FairInit
    /\ [][Next]_vars
    /\ WF_vars(Advance)
    /\ WF_vars(StopReturn)
    /\ \A l \in LoopIds : WF_vars(LoopStep(l))
    /\ WF_vars(\E e \in execs : ExecFinish(e))

-----------------------------------------------------------------------------
(* The scheduler: claims C1, C6, C7, C8 *)

\* C1: across the ticks of one tolerance window (five ticks, four minutes
\* from the first to the last) at most one execution of a task is started,
\* however long the execution takes.
C1_AtMostOneLaunchPerOccurrence ==
    \A a \in launched : \A b \in launched :
        (a.name = b.name /\ a # b) => Abs(a.at - b.at) > 4 * Minute

\* C6: at most one polling loop is alive at any time, and start() on a
\* running scheduler changes neither the flag, the loop threads nor the
\* registry.
C6_StartOnRunningIsNoOp ==
    /\ [](Cardinality(AliveLoops) <= 1)
    /\ [][(Start /\ running) => UNCHANGED <<running, thread, loopPc, tasksDb>>]_vars

\* start() was called twice and stop() never: the first loop thread is the
\* only one
C6_Witness ==
    /\ nStart >= 2
    /\ nStop = 0
    /\ running
    /\ thread = 1
    /\ AliveLoops = {1}

\* C7: stop() clears the running flag; while it waits, the loop thread ends
\* at its first wake-up (so within one tick) and stop() then returns; once it
\* has returned no loop thread is alive, and task threads are started by a
\* live loop with the flag set only.
C7_StopWaitsForLoop ==
    /\ [][Stop => running' = FALSE]_vars
    /\ []((callerPc = "idle" /\ ~running) => AliveLoops = {})
    /\ [](callerPc = "joining" =>
            /\ loopPc[thread] = "sleeping" => clock = stoppedAt
            /\ loopPc[thread] = "ready" => clock <= stoppedAt + TickSeconds)
    /\ [][launched' # launched => (running /\ AliveLoops # {})]_vars
    /\ (callerPc = "joining" ~> (callerPc = "idle" /\ AliveLoops = {}))

\* stop() has returned after a loop that had started a task
C7_Witness ==
    /\ nStop >= 1
    /\ callerPc = "idle"
    /\ ~running
    /\ thread # 0
    /\ loopPc[thread] = "dead"
    /\ launched # {}

\* the tasks of the registry that run routine f
TasksOf(f) == {n \in DOMAIN tasksDb : tasksDb[n].task = f}

\* the registry holds exactly the 25 tasks
RegistrySeeded ==
    /\ Cardinality(DOMAIN tasksDb) = 25
    /\ \A n \in DOMAIN tasksDb : tasksDb[n].name = n /\ tasksDb[n].enabled
    /\ Cardinality(TasksOf("fetch_and_post_cricket_news")) = 24
    /\ {tasksDb[n].schedule : n \in TasksOf("fetch_and_post_cricket_news")}
          = {[hour |-> h, minute |-> 0] : h \in 0..23}
    /\ Cardinality(TasksOf("cleanup_old_articles")) = 1
    /\ \A n \in TasksOf("cleanup_old_articles") :
          tasksDb[n].schedule = [hour |-> 3, minute |-> 0]

\* C8: once start() has seeded it the registry holds exactly 25 tasks with
\* distinct names, 24 ingestion tasks at minute 0 of the hours 0..23 and one
\* cleanup task at 03:00, and a start() leaves every task that exists as it
\* is, last-run included.
C8_SeedingIdempotent ==
    /\ [](seededAt # None => RegistrySeeded)
    /\ [][Start => \A n \in DOMAIN tasksDb :
                      n \in DOMAIN tasksDb' /\ tasksDb'[n] = tasksDb[n]]_vars

\* the registry was seeded again after a task had run and got its last-run
C8_Witness ==
    /\ nStart >= 2
    /\ \E n \in DOMAIN tasksDb :
          /\ tasksDb[n].last_run # None
          /\ tasksDb[n].last_run < seededAt

-----------------------------------------------------------------------------
(* The article store: MongoDBService.save_article, article_exists,        *)
(* mark_article_posted, save_bot_status                                    *)

\* the unique index (title, source)
Key(a) == <<a.title, a.source>>

\* what the feed can hold: the same title under two links, with and without
\* an image, and another title
ItemA1 == [title |-> "A", link |-> "a1", image_url |-> "None",
           description |-> "d1", source |-> "ESPN"]
ItemA2 == [title |-> "A", link |-> "a2", image_url |-> "img",
           description |-> "d2", source |-> "ESPN"]
ItemB  == [title |-> "B", link |-> "b1", image_url |-> "None",
           description |-> "d3", source |-> "ESPN"]

\* the lists NewsFetcher.fetch_cricket_news returns
Feeds == {<< >>, <<ItemA1>>, <<ItemA2, ItemB>>}

\* article_doc of save_article
article_doc(a, id, now) ==
    [id          |-> id,
     title       |-> a.title,
     link        |-> a.link,
     image_url   |-> a.image_url,
     description |-> a.description,
     source      |-> a.source,
     posted_at   |-> now,
     is_posted   |-> a.is_posted]

\* an upsert that reports a creation whatever the collection holds
UpsertedAlways(store, k) == TRUE

\* result.upserted_id is set: the update_one created the document
Upserted(store, k) == k \notin DOMAIN store

\* an upsert with $set: the document of an existing key is overwritten
UpsertArticleOverwriting(store, k, doc) ==
    [x \in DOMAIN store \cup {k} |->
        IF x = k
        THEN IF k \in DOMAIN store THEN [doc EXCEPT !.id = store[k].id] ELSE doc
        ELSE store[x]]

\* update_one({'title':, 'source':}, {'$setOnInsert': article_doc}, upsert=True)
UpsertArticle(store, k, doc) ==
    IF k \in DOMAIN store
    THEN store
    ELSE [x \in DOMAIN store \cup {k} |-> IF x = k THEN doc ELSE store[x]]

\* an existence check that sees only the documents marked as posted
article_exists_posted(store, k) == k \in DOMAIN store /\ store[k].is_posted

\* article_exists: find_one(...) is not None
article_exists(store, k) == k \in DOMAIN store

\* update_one({'title':, 'source':}, {'$set': {'is_posted': True}})
mark_article_posted(store, k) ==
    [x \in DOMAIN store |-> IF x = k THEN [store[x] EXCEPT !.is_posted = TRUE]
                                     ELSE store[x]]

\* status_doc of save_bot_status, tagged with the run that wrote it; its
\* timestamp last_run, which no operation of the pipeline reads, is left out
status_doc(r, posted, status, message) ==
    [run |-> r, articles_posted |-> posted,
     status |-> status, error_message |-> message]

-----------------------------------------------------------------------------
(* The ingestion pipeline: fetch_and_post_cricket_news *)

\* the run ends: it has returned {"status": result, ...} and its locals are gone
Done(r, result) == [IdleRun EXCEPT !.pc = "done", !.result = result]

\* a run is invoked, by run_task or by POST /api/trigger, and calls
\* telegram_bot.get_bot_info(): no bot info raises, and the handler records
\* the error.  Run r is the r-th invocation.
Probe(r) ==
    /\ runs[r].pc = "idle"
    /\ \A q \in RunIds : q < r => runs[q].pc # "idle"
    /\ \E ok \in BOOLEAN :
          IF ok
          THEN /\ runs' = [runs EXCEPT ![r].pc = "fetch"]
               /\ UNCHANGED statuses
          ELSE /\ runs' = [runs EXCEPT ![r] = Done(r, "error")]
               /\ statuses' = statuses \cup
                     {status_doc(r, 0, "error", "Failed to connect to Telegram bot")}
    /\ UNCHANGED <<articles, nextId, storeNow, saveLog, deliveries, dueVars, schedVars, collVars, pipeVars, unitVars>>

\* news_fetcher.fetch_cricket_news(); an empty list ends the run
Fetch(r) ==
    /\ runs[r].pc = "fetch"
    /\ \E feed \in Feeds :
          IF feed = << >>
          THEN /\ runs' = [runs EXCEPT ![r] = Done(r, "success")]
               /\ statuses' = statuses \cup
                     {status_doc(r, 0, "success", "No articles found")}
          ELSE /\ runs' = [runs EXCEPT ![r].pc = "exists", ![r].articles = feed,
                                       ![r].i = 1]
               /\ UNCHANGED statuses
    /\ UNCHANGED <<articles, nextId, storeNow, saveLog, deliveries, dueVars, schedVars, collVars, pipeVars, unitVars>>

\* `if not mongodb_service.article_exists(title, source)` for articles[i]
Exists(r) ==
    /\ runs[r].pc = "exists"
    /\ runs[r].i <= Len(runs[r].articles)
    /\ IF article_exists(articles, Key(runs[r].articles[runs[r].i]))
       THEN runs' = [runs EXCEPT ![r].i = @ + 1]
       ELSE runs' = [runs EXCEPT ![r].pc = "save"]
    /\ UNCHANGED <<articles, nextId, statuses, storeNow, saveLog, deliveries,
                   dueVars, schedVars, collVars, pipeVars, unitVars>>

\* the article the run is at, with article_data['is_posted'] = False
Current(r) ==
    [title       |-> runs[r].articles[runs[r].i].title,
     link        |-> runs[r].articles[runs[r].i].link,
     image_url   |-> runs[r].articles[runs[r].i].image_url,
     description |-> runs[r].articles[runs[r].i].description,
     source      |-> runs[r].articles[runs[r].i].source,
     is_posted   |-> FALSE]

\* new_articles.append(article_data), and on to the next article
Appended(r) ==
    [runs[r] EXCEPT !.pc = "exists", !.i = @ + 1, !.posted_at = None,
                    !.new_articles = Append(@, Current(r))]

\* save_article up to the answer of update_one: article_doc is built with
\* posted_at = utcnow(); a created document ends the call, which returns the
\* new id
SaveArticle(r) ==
    /\ runs[r].pc = "save"
    /\ LET a == Current(r)
           k == Key(a)
       IN  /\ articles' = UpsertArticle(articles, k, article_doc(a, nextId + 1, storeNow))
           /\ IF Upserted(articles, k)
              THEN /\ nextId' = nextId + 1
                   /\ saveLog' = saveLog \cup
                         {[run |-> r, key |-> k, upserted |-> TRUE, id |-> nextId + 1,
                           doc |-> a, at |-> storeNow]}
                   /\ runs' = [runs EXCEPT ![r] = Appended(r)]
              ELSE /\ runs' = [runs EXCEPT ![r].pc = "find",
                                           ![r].posted_at = storeNow]
                   /\ UNCHANGED <<nextId, saveLog>>
    /\ UNCHANGED <<statuses, storeNow, deliveries, dueVars, schedVars, collVars, pipeVars, unitVars>>

\* save_article when nothing was created: find_one gives the id of the
\* document that exists
FindExisting(r) ==
    /\ runs[r].pc = "find"
    /\ LET a == Current(r)
           k == Key(a)
       IN  saveLog' = saveLog \cup
              {[run |-> r, key |-> k, upserted |-> FALSE,
                id |-> IF k \in DOMAIN articles THEN articles[k].id ELSE None,
                doc |-> a, at |-> None]}
    /\ runs' = [runs EXCEPT ![r] = Appended(r)]
    /\ UNCHANGED <<articles, nextId, statuses, storeNow, deliveries, dueVars, schedVars, collVars, pipeVars, unitVars>>

\* the filter loop is over: without a new article the run ends
EndFilter(r) ==
    /\ runs[r].pc = "exists"
    /\ runs[r].i > Len(runs[r].articles)
    /\ IF runs[r].new_articles = << >>
       THEN /\ runs' = [runs EXCEPT ![r] = Done(r, "success")]
            /\ statuses' = statuses \cup
                  {status_doc(r, 0, "success", "No new articles")}
       ELSE /\ runs' = [runs EXCEPT ![r].pc = "post"]
            /\ UNCHANGED statuses
    /\ UNCHANGED <<articles, nextId, storeNow, saveLog, deliveries, dueVars, schedVars, collVars, pipeVars, unitVars>>

\* telegram_bot.post_articles(new_articles): each article is sent, and the
\* sends that succeed are counted; a count of 0 raises into the handler,
\* which records the error
Send(r) ==
    /\ runs[r].pc = "post"
    /\ \E ok \in [1..Len(runs[r].new_articles) -> BOOLEAN] :
          LET count == Cardinality({j \in DOMAIN ok : ok[j]})
          IN  /\ deliveries' = deliveries \cup
                    {[run |-> r, j |-> j, key |-> Key(runs[r].new_articles[j]),
                      ok |-> ok[j]] : j \in DOMAIN ok}
              /\ IF count = 0
                 THEN /\ runs' = [runs EXCEPT ![r] = Done(r, "error")]
                      /\ statuses' = statuses \cup
                            {status_doc(r, 0, "error", "Failed to post any articles")}
                 ELSE /\ runs' = [runs EXCEPT ![r].posted_count = count,
                                              ![r].pc = "mark"]
                      /\ UNCHANGED statuses
    /\ UNCHANGED <<articles, nextId, storeNow, saveLog, dueVars, schedVars, collVars, pipeVars, unitVars>>

RECURSIVE MarkAll(_, _, _)
\* `for article_data in new_articles: mark_article_posted(...)` from the
\* j-th article on.  No operation of a run reads is_posted, so the marks of
\* a run are taken in one step.
MarkAll(store, items, j) ==
    IF j > Len(items) THEN store
    ELSE MarkAll(mark_article_posted(store, Key(items[j])), items, j + 1)

\* the new articles are marked as posted, save_bot_status records the posted
\* count, and the success result is returned
Finish(r) ==
    /\ runs[r].pc = "mark"
    /\ articles' = MarkAll(articles, runs[r].new_articles, 1)
    /\ runs' = [runs EXCEPT ![r] = Done(r, "success")]
    /\ statuses' = statuses \cup
          {status_doc(r, runs[r].posted_count, "success", "None")}
    /\ UNCHANGED <<nextId, storeNow, saveLog, deliveries, dueVars, schedVars, collVars, pipeVars, unitVars>>

\* time passes while a run is under way
StoreTick ==
    /\ storeNow < MaxStoreTime
    /\ \E r \in RunIds : runs[r].pc \notin {"idle", "done"}
    /\ storeNow' = storeNow + 1
    /\ UNCHANGED <<articles, nextId, statuses, runs, saveLog, deliveries,
                   dueVars, schedVars, collVars, pipeVars, unitVars>>

StoreInit ==
    /\ StoreIdle
    /\ SchedIdle
    /\ CollIdle
    /\ PipeIdle
    /\ UnitIdle
    /\ dueTask = CleanupTask
    /\ dueNow = 0
    /\ dueResult = FALSE
    /\ duePc = "input"

StoreNext ==
    \/ StoreTick
    \/ \E r \in RunIds :
          \/ Probe(r)
          \/ Fetch(r)
          \/ Exists(r)
          \/ SaveArticle(r)
          \/ FindExisting(r)
          \/ EndFilter(r)
          \/ Send(r)
          \/ Finish(r)

StoreSpec == StoreInit /\ [][StoreNext]_vars

-----------------------------------------------------------------------------
(* One invocation of fetch_and_post_cricket_news, with the faults of the  *)
(* store, the feed and the Telegram client                                 *)

\* the articles the ESPN feed can hold
PipeItems == {ItemA1, ItemA2, ItemB}

RECURSIVE SeqsUpTo(_, _)
\* the lists of at most n elements of S
SeqsUpTo(S, n) ==
    IF n = 0 THEN {<< >>}
    ELSE LET shorter == SeqsUpTo(S, n - 1)
         IN  shorter \cup {Append(q, x) : q \in {y \in shorter : Len(y) = n - 1}, x \in S}

\* what fetch_cricket_news can return when the feed answers
PipeFeeds == SeqsUpTo(PipeItems, MaxFeed)

\* the collections news_articles an invocation can find: some of the keys
\* stored by earlier invocations, "A" marked as posted and "B" not
PreStores ==
    {[k \in ks |-> [link |-> "old", is_posted |-> (k[1] = "A")]]
        : ks \in SUBSET {Key(a) : a \in PipeItems}}

\* a record of bot_status written by an earlier invocation
OldStatus == status_doc(0, 1, "success", "None")

\* an entry of the history of calls; key is << >> for a call without article
NoKey == << >>
Call(op, key, fault, ret) == [op |-> op, key |-> key, fault |-> fault, ret |-> ret]

\* a probe that is never taken as failed
BotAlwaysReachable(bot_info) == FALSE

\* `if not bot_info:`
BotUnreachable(bot_info) == bot_info = "None"

\* a feed that is never taken as empty
NeverNoArticles(as) == FALSE

\* `if not articles:`
NoArticles(as) == as = << >>

\* a filter result that is never taken as empty
NeverNoNewArticles(ns) == FALSE

\* `if not new_articles:`
NoNewArticles(ns) == ns = << >>

\* a check that wants two articles posted
FewerThanTwoPosted(count) == count < 2

\* a check that never sees a failed posting
NeverNonePosted(count) == FALSE

\* `if posted_count == 0:`
NonePosted(count) == count = 0

\* a loop that gives up at the first article that cannot be sent
AfterFailureBreak(i, n) == n + 1

\* `except Exception: continue` in post_articles: on to the next article
AfterFailure(i, n) == i + 1

\* a filter that lets every article through
NeverDuplicate(found) == FALSE

\* `if not mongodb_service.article_exists(...)` fails: the article is skipped
Duplicate(found) == found

\* `if i < len(articles) - 1: time.sleep(1)`, i counted from 1 here
PauseAfter(i, n) == i < n

\* a marking loop over as many articles as were posted
marked_articles_posted(ns, count) == SubSeq(ns, 1, count)

\* `for article_data in new_articles:` of the marking loop
marked_articles(ns, count) == ns

\* an insert that replaces the latest record
InsertReplacingLast(seq, doc) ==
    IF seq = << >> THEN <<doc>> ELSE [seq EXCEPT ![Len(seq)] = doc]

\* bot_status_collection.insert_one(status_doc)
insert_one(seq, doc) == Append(seq, doc)

\* save_bot_status(...) followed by `return`: the status is appended unless
\* the store fails (save_bot_status then returns None and nothing is raised)
Return(tr, doc, res) ==
    /\ \E fault \in BOOLEAN :
          /\ bot_status' = IF fault THEN bot_status ELSE insert_one(bot_status, doc)
          /\ trace' = Append(tr, Call("save_bot_status", NoKey, fault, ~fault))
    /\ returned' = res
    /\ pipePc' = "returned"

\* mongodb_service = MongoDBService(), before the try block: a failing
\* connection is raised again by __init__ and leaves the function
Construct ==
    /\ pipePc = "start"
    /\ \E fault \in BOOLEAN :
          /\ trace' = Append(trace, Call("MongoDBService", NoKey, fault, ~fault))
          /\ pipePc' = IF fault THEN "raised" ELSE "probe"
          /\ error' = IF fault THEN "mongo" ELSE error
    /\ UNCHANGED <<rss, before, stored, bot_status, fetched, new_articles, idx, posted_count,
                   returned, dueVars, schedVars, storeVars, collVars, unitVars>>

\* telegram_bot.get_bot_info(): None on a bad answer or an exception
ProbeBot ==
    /\ pipePc = "probe"
    /\ \E bot_info \in {"bot", "None"} :
          /\ trace' = Append(trace, Call("get_bot_info", NoKey, FALSE, bot_info # "None"))
          /\ IF BotUnreachable(bot_info)
             THEN /\ pipePc' = "except"
                  /\ error' = "Failed to connect to Telegram bot"
             ELSE /\ pipePc' = "fetch"
                  /\ UNCHANGED error
    /\ UNCHANGED <<rss, before, stored, bot_status, fetched, new_articles, idx, posted_count,
                   returned, dueVars, schedVars, storeVars, collVars, unitVars>>

\* news_fetcher.fetch_cricket_news(): [] when the feed fails; no article
\* ends the invocation with the status "No articles found"
FetchNews ==
    /\ pipePc = "fetch"
    /\ \E fault \in BOOLEAN :
          LET as == IF fault THEN << >> ELSE rss
              tr == Append(trace, Call("fetch_cricket_news", NoKey, fault, as # << >>))
          IN  /\ fetched' = as
              /\ IF NoArticles(as)
                 THEN /\ Return(tr, status_doc(1, 0, "success", "No articles found"),
                                [status |-> "success", message |-> "No articles found",
                                 articles_posted |-> None])
                      /\ UNCHANGED idx
                 ELSE /\ pipePc' = "filter"
                      /\ idx' = 1
                      /\ trace' = tr
                      /\ UNCHANGED <<bot_status, returned>>
    /\ UNCHANGED <<rss, before, stored, new_articles, posted_count, error,
                   dueVars, schedVars, storeVars, collVars, unitVars>>

\* one pass of `for article_data in articles:`: article_exists (False when
\* the store fails), and for an article not found save_article (whose
\* outcome is not looked at) and new_articles.append
Filter ==
    /\ pipePc = "filter"
    /\ idx <= Len(fetched)
    /\ LET a == fetched[idx]
           k == Key(a)
       IN  \E efault \in BOOLEAN :
             LET found == ~efault /\ article_exists(stored, k)
                 tr    == Append(trace, Call("article_exists", k, efault, found))
             IN  IF Duplicate(found)
                 THEN /\ trace' = tr
                      /\ UNCHANGED <<stored, new_articles>>
                 ELSE \E sfault \in BOOLEAN :
                        /\ stored' = IF sfault THEN stored
                                      ELSE UpsertArticle(stored, k,
                                              [link |-> a.link, is_posted |-> FALSE])
                        /\ trace' = Append(tr, Call("save_article", k, sfault,
                                                    ~sfault /\ Upserted(stored, k)))
                        /\ new_articles' = Append(new_articles, a)
    /\ idx' = idx + 1
    /\ UNCHANGED <<pipePc, rss, before, bot_status, fetched, posted_count, error, returned,
                   dueVars, schedVars, storeVars, collVars, unitVars>>

\* after the loop: no new article ends the invocation with the status
\* "No new articles", otherwise post_articles(new_articles) is entered
EndOfFilter ==
    /\ pipePc = "filter"
    /\ idx > Len(fetched)
    /\ IF NoNewArticles(new_articles)
       THEN /\ Return(trace, status_doc(1, 0, "success", "No new articles"),
                      [status |-> "success", message |-> "No new articles",
                       articles_posted |-> None])
            /\ UNCHANGED idx
       ELSE /\ pipePc' = "post"
            /\ idx' = 1
            /\ UNCHANGED <<bot_status, trace, returned>>
    /\ UNCHANGED <<rss, before, stored, fetched, new_articles, posted_count, error,
                   dueVars, schedVars, storeVars, collVars, unitVars>>

\* one pass of the loop of post_articles: send_photo for an article with an
\* image, send_message otherwise; after a send that returned, the count goes
\* up and, unless the article is the last, time.sleep(1); a send that raises
\* is logged and the loop goes on from the except clause
SendArticle ==
    /\ pipePc = "post"
    /\ idx <= Len(new_articles)
    /\ LET a == new_articles[idx]
       IN  \E sent \in BOOLEAN :
             LET tr == Append(trace,
                           Call(IF a.image_url # "None" THEN "send_photo"
                                                       ELSE "send_message",
                                Key(a), ~sent, sent))
             IN  /\ trace' = IF sent /\ PauseAfter(idx, Len(new_articles))
                              THEN Append(tr, Call("sleep", NoKey, FALSE, TRUE))
                              ELSE tr
                 /\ posted_count' = IF sent THEN posted_count + 1 ELSE posted_count
                 /\ idx' = IF sent THEN idx + 1
                           ELSE AfterFailure(idx, Len(new_articles))
    /\ UNCHANGED <<pipePc, rss, before, stored, bot_status, fetched, new_articles, error,
                   returned, dueVars, schedVars, storeVars, collVars, unitVars>>

\* post_articles returns posted_count; a count of 0 raises
EndOfPost ==
    /\ pipePc = "post"
    /\ idx > Len(new_articles)
    /\ IF NonePosted(posted_count)
       THEN /\ pipePc' = "except"
            /\ error' = "Failed to post any articles"
            /\ UNCHANGED idx
       ELSE /\ pipePc' = "mark"
            /\ idx' = 1
            /\ UNCHANGED error
    /\ UNCHANGED <<rss, before, stored, bot_status, fetched, new_articles, posted_count,
                   trace, returned, dueVars, schedVars, storeVars, collVars, unitVars>>

\* one pass of `for article_data in new_articles: mark_article_posted(...)`;
\* a failing store is logged by mark_article_posted
MarkArticle ==
    /\ pipePc = "mark"
    /\ idx <= Len(marked_articles(new_articles, posted_count))
    /\ LET k == Key(marked_articles(new_articles, posted_count)[idx])
       IN  \E fault \in BOOLEAN :
             /\ stored' = IF fault THEN stored ELSE mark_article_posted(stored, k)
             /\ trace' = Append(trace, Call("mark_article_posted", k, fault, ~fault))
    /\ idx' = idx + 1
    /\ UNCHANGED <<pipePc, rss, before, bot_status, fetched, new_articles, posted_count, error,
                   returned, dueVars, schedVars, storeVars, collVars, unitVars>>

\* the status with the posted count is saved and the result returned
Succeed ==
    /\ pipePc = "mark"
    /\ idx > Len(marked_articles(new_articles, posted_count))
    /\ Return(trace, status_doc(1, posted_count, "success", "None"),
              [status |-> "success", message |-> "None",
               articles_posted |-> posted_count])
    /\ UNCHANGED <<rss, before, stored, fetched, new_articles, idx, posted_count, error,
                   dueVars, schedVars, storeVars, collVars, unitVars>>

\* `except Exception as e:` saves the error status and returns the error
HandleError ==
    /\ pipePc = "except"
    /\ Return(trace, status_doc(1, 0, "error", error),
              [status |-> "error", message |-> error, articles_posted |-> None])
    /\ UNCHANGED <<rss, before, stored, fetched, new_articles, idx, posted_count, error,
                   dueVars, schedVars, storeVars, collVars, unitVars>>

\* fetch_and_post_cricket_news() is called, by run_task or POST /api/trigger
PipeInit ==
    /\ pipePc = "start"
    /\ rss \in PipeFeeds
    /\ stored \in PreStores
    /\ bot_status = <<OldStatus>>
    /\ before = [stored |-> stored, bot_status |-> bot_status]
    /\ fetched = << >>
    /\ new_articles = << >>
    /\ idx = 0
    /\ posted_count = 0
    /\ error = "None"
    /\ trace = << >>
    /\ returned = NoResult
    /\ CollIdle
    /\ StoreIdle
    /\ SchedIdle
    /\ UnitIdle
    /\ dueTask = CleanupTask
    /\ dueNow = 0
    /\ dueResult = FALSE
    /\ duePc = "input"

PipeNext ==
    \/ Construct
    \/ ProbeBot
    \/ FetchNews
    \/ Filter
    \/ EndOfFilter
    \/ SendArticle
    \/ EndOfPost
    \/ MarkArticle
    \/ Succeed
    \/ HandleError

PipeSpec == PipeInit /\ [][PipeNext]_vars

-----------------------------------------------------------------------------
(* Claims about one invocation of the pipeline: C12 .. C19 *)

\* the calls of the history whose operation is one of ops, in order
CallsOf(ops) == SelectSeq(trace, LAMBDA e : e.op \in ops)

\* the calls to the Telegram client that deliver an article
SendOps == {"send_photo", "send_message"}

\* the status record the invocation has to write, given that it returned
OwnStatus(posted, status, message) ==
    IF trace[Len(trace)].ret
    THEN bot_status = Append(before.bot_status, status_doc(1, posted, status, message))
    ELSE bot_status = before.bot_status

\* get_bot_info() gave no bot info
ProbeFailed == \E i \in DOMAIN trace : trace[i].op = "get_bot_info" /\ ~trace[i].ret

\* C12: when the probe of the Telegram bot fails, the invocation makes no
\* feed fetch, no store insert and no delivery call, leaves the articles as
\* they are, and returns an error whose only trace in the store is the
\* error status with articles_posted = 0.
C12_ProbeFailureAborts ==
    ProbeFailed =>
        /\ CallsOf({"fetch_cricket_news", "article_exists", "save_article",
                    "mark_article_posted"} \cup SendOps) = << >>
        /\ stored = before.stored
        /\ pipePc \in {"except", "returned"}
        /\ pipePc = "except" => bot_status = before.bot_status
        /\ pipePc = "returned" =>
              /\ returned.status = "error"
              /\ returned.message = "Failed to connect to Telegram bot"
              /\ OwnStatus(0, "error", "Failed to connect to Telegram bot")

\* the probe failed with articles in the feed, and the error status is written
C12_Witness ==
    /\ ProbeFailed
    /\ pipePc = "returned"
    /\ rss # << >>
    /\ Len(bot_status) = Len(before.bot_status) + 1

\* fetch_cricket_news() returned no article
FeedEmpty ==
    \E i \in DOMAIN trace : trace[i].op = "fetch_cricket_news" /\ ~trace[i].ret

\* C13: when the feed client returns no article the invocation ends as a
\* success with articles_posted = 0 and the message "No articles found",
\* without a store insert and without a delivery call.
C13_EmptyFeedIsSuccess ==
    FeedEmpty =>
        /\ pipePc = "returned"
        /\ returned.status = "success"
        /\ returned.message = "No articles found"
        /\ OwnStatus(0, "success", "No articles found")
        /\ CallsOf({"save_article"} \cup SendOps) = << >>
        /\ stored = before.stored

\* the feed answered with no article and the status is written
C13_Witness ==
    /\ FeedEmpty
    /\ rss = << >>
    /\ pipePc = "returned"
    /\ Len(bot_status) = Len(before.bot_status) + 1

\* every article fetched is in news_articles, and every existence check made
\* so far was answered by the store
AllDuplicates ==
    /\ fetched # << >>
    /\ \A i \in DOMAIN fetched : article_exists(before.stored, Key(fetched[i]))
    /\ \A i \in DOMAIN trace : trace[i].op = "article_exists" => ~trace[i].fault

\* C14: when every fetched article is already stored, the invocation adds
\* none to new_articles, makes no delivery call, leaves every article record
\* as it is, and ends as a success with articles_posted = 0 and the message
\* "No new articles".
C14_AllDuplicatesIsSuccess ==
    AllDuplicates =>
        /\ new_articles = << >>
        /\ stored = before.stored
        /\ CallsOf({"save_article", "mark_article_posted"} \cup SendOps) = << >>
        /\ pipePc \in {"filter", "returned"}
        /\ pipePc = "returned" =>
              /\ returned.status = "success"
              /\ returned.message = "No new articles"
              /\ OwnStatus(0, "success", "No new articles")

\* two stored articles were fetched and skipped, and the status is written
C14_Witness ==
    /\ AllDuplicates
    /\ Len(fetched) = 2
    /\ pipePc = "returned"
    /\ Len(bot_status) = Len(before.bot_status) + 1

\* the number of delivery calls that succeeded
Delivered == Len(SelectSeq(trace, LAMBDA e : e.op \in SendOps /\ e.ret))

\* post_articles has returned
PostDone ==
    \/ pipePc = "mark"
    \/ pipePc \in {"except", "returned"} /\ new_articles # << >>

\* C15: when k > 0 of the n deliveries succeed, post_articles returns k, the
\* invocation ends as a success, and the status it writes has
\* articles_posted = k.
C15_PartialDeliveryIsSuccess ==
    (PostDone /\ Delivered > 0) =>
        /\ posted_count = Delivered
        /\ pipePc \in {"mark", "returned"}
        /\ pipePc = "returned" =>
              /\ returned.status = "success"
              /\ returned.articles_posted = Delivered
              /\ OwnStatus(Delivered, "success", "None")

\* one of two deliveries failed, and the status with the count 1 is written
C15_Witness ==
    /\ pipePc = "returned"
    /\ Len(new_articles) = 2
    /\ Delivered = 1
    /\ Len(bot_status) = Len(before.bot_status) + 1

\* C16: when there are new articles and every delivery call fails,
\* post_articles still goes through all of them and returns 0, and the
\* invocation ends as the error "Failed to post any articles" with an error
\* status of articles_posted = 0.
C16_NoDeliveryIsError ==
    (PostDone /\ Delivered = 0) =>
        /\ Len(CallsOf(SendOps)) = Len(new_articles)
        /\ posted_count = 0
        /\ pipePc \in {"except", "returned"}
        /\ error = "Failed to post any articles"
        /\ pipePc = "returned" =>
              /\ returned.status = "error"
              /\ returned.message = "Failed to post any articles"
              /\ OwnStatus(0, "error", "Failed to post any articles")

\* both of two deliveries failed, and the error status is written
C16_Witness ==
    /\ pipePc = "returned"
    /\ Len(new_articles) = 2
    /\ Len(CallsOf(SendOps)) = 2
    /\ Delivered = 0
    /\ Len(bot_status) = Len(before.bot_status) + 1

\* the records of bot_status the invocation has written
OwnRecords == {i \in DOMAIN bot_status : bot_status[i].run = 1}

\* C17: an invocation that returns has called save_bot_status exactly once,
\* whichever path it took, and when that append succeeded bot_status holds
\* exactly one record more; the records that were there stay in place,
\* unchanged, at every step.
C17_OneStatusPerInvocation ==
    /\ Len(bot_status) >= Len(before.bot_status)
    /\ SubSeq(bot_status, 1, Len(before.bot_status)) = before.bot_status
    /\ pipePc # "returned" => bot_status = before.bot_status
    /\ pipePc = "returned" =>
          /\ Len(CallsOf({"save_bot_status"})) = 1
          /\ trace[Len(trace)].op = "save_bot_status"
          /\ trace[Len(trace)].ret =>
                /\ Len(bot_status) = Len(before.bot_status) + 1
                /\ Cardinality(OwnRecords) = 1
                /\ bot_status[Len(bot_status)].status = returned.status

\* an invocation that found an earlier record ended as an error and has
\* appended its own
C17_Witness ==
    /\ pipePc = "returned"
    /\ returned.status = "error"
    /\ before.bot_status = <<OldStatus>>
    /\ bot_status[1] = OldStatus
    /\ Len(bot_status) = 2

\* C18: an invocation never raises to its caller, and what it returns has
\* the outcome success or error.
C18_NeverRaises ==
    /\ pipePc # "raised"
    /\ pipePc = "returned" => returned.status \in {"success", "error"}

\* the delivery calls made so far
Sends == CallsOf(SendOps)

\* C19: post_articles calls the Telegram client for the articles of its
\* input in their order, each once, goes on after a failed call until the
\* last article, and returns the number of calls that succeeded.
C19_EveryArticleAttemptedOnce ==
    /\ Len(Sends) <= Len(new_articles)
    /\ \A i \in DOMAIN Sends :
          /\ Sends[i].key = Key(new_articles[i])
          /\ Sends[i].op = "send_photo" <=> new_articles[i].image_url # "None"
    /\ posted_count = Delivered
    /\ posted_count <= Len(Sends)
    /\ pipePc = "post" => Len(Sends) = idx - 1
    /\ PostDone => Len(Sends) = Len(new_articles)

\* post_articles has returned 1 for two articles: the first call failed and
\* the second was still made
C19_Witness ==
    /\ PostDone
    /\ Len(new_articles) = 2
    /\ Len(Sends) = 2
    /\ ~Sends[1].ret
    /\ Sends[2].ret
    /\ posted_count = 1

-----------------------------------------------------------------------------
(* Claims about the order of the calls of one invocation: C25 .. C28 *)

\* the calls of mark_article_posted made so far
Marks == CallsOf({"mark_article_posted"})

\* mark_article_posted was called for the articles of new_articles, each
\* once, in their order
MarkedAll ==
    /\ Len(Marks) = Len(new_articles)
    /\ \A i \in DOMAIN Marks : Marks[i].key = Key(new_articles[i])

\* C25, as claimed: an invocation that has gone through post_articles with a
\* non-empty new_articles and returned has called mark_article_posted for
\* every article of new_articles, however many deliveries succeeded
C25_EveryNewArticleMarked ==
    (pipePc = "returned" /\ new_articles # << >>) => MarkedAll

\* C25, amended: an invocation that has gone through post_articles with at
\* least one delivery that succeeded and has returned has called
\* mark_article_posted for every article of new_articles, whether or not the
\* delivery of that article succeeded
C25_EveryNewArticleMarkedOncePosted ==
    (pipePc = "returned" /\ new_articles # << >> /\ Delivered > 0) => MarkedAll

\* of two new articles of different keys the second could not be delivered,
\* and both were marked
C25_Witness ==
    /\ pipePc = "returned"
    /\ Len(new_articles) = 2
    /\ Key(new_articles[1]) # Key(new_articles[2])
    /\ Sends[1].ret
    /\ ~Sends[2].ret
    /\ MarkedAll
    /\ ~Marks[2].fault

\* the record of key k was marked as posted before the invocation
PostedBefore(k) == k \in DOMAIN before.stored /\ before.stored[k].is_posted

\* C26: a record whose flag is_posted has become true has had a delivery
\* call for its (title, source) that succeeded, and a record that was marked
\* as posted stays so
C26_PostedOnlyAfterDelivery ==
    /\ \A k \in DOMAIN before.stored :
          /\ k \in DOMAIN stored
          /\ before.stored[k].is_posted => stored[k].is_posted
    /\ \A k \in DOMAIN stored :
          (stored[k].is_posted /\ ~PostedBefore(k)) =>
              \E i \in DOMAIN trace :
                  trace[i].op \in SendOps /\ trace[i].key = k /\ trace[i].ret

\* the calls of article_exists made so far
Checks == CallsOf({"article_exists"})

\* the articles among the first i fetched whose check said "not stored"
RECURSIVE Kept(_)
Kept(i) ==
    IF i = 0 THEN << >>
    ELSE IF Checks[i].ret THEN Kept(i - 1) ELSE Append(Kept(i - 1), fetched[i])

\* C27: the existence checks go through the fetched articles in feed order;
\* new_articles holds, in feed order, exactly the articles whose check did
\* not say "stored"; the delivery calls follow new_articles in order; and
\* every delivery call for a key comes after a check of that key that said
\* "not stored" and the save_article call that follows it
C27_CheckAndInsertBeforeDelivery ==
    /\ Len(Checks) <= Len(fetched)
    /\ \A i \in DOMAIN Checks : Checks[i].key = Key(fetched[i])
    /\ new_articles = Kept(Len(Checks))
    /\ \A i \in DOMAIN Sends : Sends[i].key = Key(new_articles[i])
    /\ \A p \in DOMAIN trace :
          trace[p].op \in SendOps =>
              /\ \A q \in DOMAIN trace :
                    trace[q].op \in {"article_exists", "save_article"} => q < p
              /\ \E q \in 1..(p - 2) :
                    /\ trace[q].op = "article_exists"
                    /\ trace[q].key = trace[p].key
                    /\ ~trace[q].ret
                    /\ trace[q + 1].op = "save_article"
                    /\ trace[q + 1].key = trace[p].key

\* of two fetched articles the first was found in the store and skipped, the
\* second was inserted and then delivered
C27_Witness ==
    /\ pipePc = "returned"
    /\ Len(fetched) = 2
    /\ Checks[1].ret
    /\ ~Checks[2].ret
    /\ new_articles = <<fetched[2]>>
    /\ Len(Sends) = 1
    /\ Sends[1].ret
    /\ \E q \in DOMAIN trace : trace[q].op = "save_article" /\ trace[q].ret

\* the delivery calls and the pauses of post_articles, in order
Pacing == CallsOf(SendOps \cup {"sleep"})

\* C28: once post_articles has returned, its delivery calls and pauses
\* alternate: a pause between every two consecutive delivery calls, whether
\* the earlier call succeeded or failed, and none after the last call
C28_PauseBetweenAttempts ==
    PostDone =>
        /\ Len(Pacing) = 2 * Len(new_articles) - 1
        /\ \A i \in DOMAIN Pacing : (Pacing[i].op = "sleep") <=> (i % 2 = 0)

-----------------------------------------------------------------------------
(* Claims about the item store and concurrent pipeline runs *)

\* the keys run r has treated as new: those in its new_articles and those it
\* has handed to the Telegram client
Handled(r) ==
    {Key(runs[r].new_articles[j]) : j \in DOMAIN runs[r].new_articles}
        \cup {d.key : d \in {x \in deliveries : x.run = r}}

\* C2: when two pipeline runs fetch an item with the same (title, source),
\* at most one of them adds it to its new articles and hands it to the
\* delivery client.
C2_AtMostOneRunTreatsAsNew ==
    \A r1, r2 \in RunIds : r1 # r2 => Handled(r1) \cap Handled(r2) = {}

\* the save_article calls that created the document of key k
Creations(k) == {e \in saveLog : e.key = k /\ e.upserted}

\* the runs that have marked their new articles as posted
Marked(k) ==
    {d.run : d \in {x \in deliveries : x.key = k /\
                      \E s \in statuses : /\ s.run = x.run
                                           /\ s.status = "success"
                                           /\ s.articles_posted > 0}}

\* C9: saving the same (title, source) again creates no second record, every
\* save of a key returns the id of the one record, and the stored link,
\* image, description and timestamp are those of the save that created the
\* record; the posted flag is set only by the marking of a run, never reset
\* by a later save.
C9_InsertIdempotent ==
    /\ nextId = Cardinality(DOMAIN articles)
    /\ \A e \in saveLog : e.key \in DOMAIN articles /\ e.id = articles[e.key].id
    /\ \A k \in DOMAIN articles :
          /\ \E e \in Creations(k) :
                articles[k] = [article_doc(e.doc, e.id, e.at)
                                  EXCEPT !.is_posted = articles[k].is_posted]
          /\ articles[k].is_posted <=> Marked(k) # {}

\* a second save of a stored key, with another link and at a later time, has
\* been answered by the store, and the record is as the first save made it
C9_Witness ==
    \E r \in RunIds : \E e \in saveLog :
        /\ runs[r].pc = "find"
        /\ e.upserted
        /\ e.key = Key(Current(r))
        /\ e.doc.link # Current(r).link
        /\ runs[r].posted_at > e.at
        /\ articles[e.key] = article_doc(e.doc, e.id, e.at)

\* C10: of the save_article calls made for one (title, source) key, whatever
\* their interleaving, exactly one is answered as a creation and every other
\* one as a non-creation; the answer is the store's.
C10_OneCreationPerKey ==
    /\ \A k \in DOMAIN articles : Cardinality(Creations(k)) = 1
    /\ \A e \in saveLog : e.key \in DOMAIN articles
    /\ \A r \in RunIds : runs[r].pc = "find" => Key(Current(r)) \in DOMAIN articles

\* two runs under way have both saved the same key: one created the record,
\* the other did not
C10_Witness ==
    \E e1, e2 \in saveLog :
        /\ e1.key = e2.key
        /\ e1.run # e2.run
        /\ e1.upserted /\ ~e2.upserted
        /\ runs[e1.run].pc # "done" /\ runs[e2.run].pc # "done"

-----------------------------------------------------------------------------
(* The news_articles collection under concurrent callers: save_article,   *)
(* mark_article_posted and cleanup_old_articles of MongoDBService          *)

\* timedelta(days=7)
RetentionDays == 7

\* the (title, source) pairs the callers save
CollItems == {[title |-> "A", source |-> "ESPN"], [title |-> "B", source |-> "ESPN"]}

\* the documents a filter {'title': title, 'source': source} matches
Matching(c0, title, source) == {d \in c0 : d.title = title /\ d.source = source}

\* a collection without the unique index: no insert is refused
IndexRefusesNothing(c0, title, source) == FALSE

\* create_index([('title', ASCENDING), ('source', ASCENDING)], unique=True):
\* the insert of a second document with the same title and source is refused
IndexRefuses(c0, title, source) == Matching(c0, title, source) # {}

\* the upserts that have matched nothing and have their insert pending
Inserting == {c \in CallerIds : calls[c].pc = "inserting"}

\* save_article, first half: article_doc gets posted_at = utcnow(), and
\* update_one(..., upsert=True) looks for a document that matches the filter.
\* A match ends the operation ($setOnInsert changes nothing); without one the
\* store goes on to insert.
UpdateMatch(c) ==
    /\ calls[c].pc = "idle"
    /\ collNextId + Cardinality(Inserting) < MaxInserts
    /\ \E a \in CollItems :
          /\ Matching(coll, a.title, a.source) = {}
          /\ calls' = [calls EXCEPT ![c] = [pc |-> "inserting", title |-> a.title,
                                            source |-> a.source, posted_at |-> collNow]]
    /\ UNCHANGED <<coll, collNextId, collNow, collTicks, purged, dueVars, schedVars, storeVars, pipeVars, unitVars>>

\* save_article, second half: the store inserts article_doc unless the
\* unique index refuses it (the upsert then ends as a non-creation, or
\* save_article returns None on the duplicate-key error)
UpdateInsert(c) ==
    /\ calls[c].pc = "inserting"
    /\ IF IndexRefuses(coll, calls[c].title, calls[c].source)
       THEN UNCHANGED <<coll, collNextId>>
       ELSE /\ coll' = coll \cup {[id |-> collNextId + 1, title |-> calls[c].title,
                                   source |-> calls[c].source,
                                   posted_at |-> calls[c].posted_at,
                                   is_posted |-> FALSE]}
            /\ collNextId' = collNextId + 1
    /\ calls' = [calls EXCEPT ![c] = NoCall]
    /\ UNCHANGED <<collNow, collTicks, purged, dueVars, schedVars, storeVars, pipeVars, unitVars>>

\* mark_article_posted: update_one sets is_posted on one matching document
MarkPosted ==
    /\ \E a \in CollItems : \E d \in Matching(coll, a.title, a.source) :
          /\ ~d.is_posted
          /\ coll' = (coll \ {d}) \cup {[d EXCEPT !.is_posted = TRUE]}
    /\ UNCHANGED <<collNextId, collNow, collTicks, calls, purged, dueVars, schedVars, storeVars, pipeVars, unitVars>>

\* a filter that also takes the documents exactly seven days old
ExpiredInclusive(d, now) == d.posted_at <= now - RetentionDays

\* {'posted_at': {'$lt': seven_days_ago}}
Expired(d, now) == d.posted_at < now - RetentionDays

\* delete_many(filter) of cleanup_old_articles: what is left
delete_many(c0, now) == {d \in c0 : ~Expired(d, now)}

\* result.deleted_count
deleted_count(c0, now) == Cardinality(c0) - Cardinality(delete_many(c0, now))

\* cleanup_old_articles() of MongoDBService, called by the daily task or by
\* POST /api/cleanup
Cleanup ==
    /\ coll' = delete_many(coll, collNow)
    /\ purged' = [at |-> collNow, count |-> deleted_count(coll, collNow)]
    /\ UNCHANGED <<collNextId, collNow, collTicks, calls, dueVars, schedVars, storeVars, pipeVars, unitVars>>

\* the steps the collection's clock takes: a day, or the retention period
CollSteps == {1, RetentionDays}

\* time passes
CollTick ==
    /\ collTicks < MaxCollTicks
    /\ collTicks' = collTicks + 1
    /\ \E n \in CollSteps : collNow' = collNow + n
    /\ UNCHANGED <<coll, collNextId, calls, purged, dueVars, schedVars, storeVars, pipeVars, unitVars>>

CollInit ==
    /\ CollIdle
    /\ StoreIdle
    /\ SchedIdle
    /\ PipeIdle
    /\ UnitIdle
    /\ dueTask = CleanupTask
    /\ dueNow = 0
    /\ dueResult = FALSE
    /\ duePc = "input"

CollNext ==
    \/ \E c \in CallerIds : UpdateMatch(c) \/ UpdateInsert(c)
    \/ MarkPosted
    \/ Cleanup
    \/ CollTick

CollSpec == CollInit /\ [][CollNext]_vars

-----------------------------------------------------------------------------
(* Claims about the collection: C11, C20 *)

\* C11: under every interleaving of saves, markings and cleanups the
\* collection holds at most one document per (title, source).
C11_OneRecordPerKey ==
    \A d1, d2 \in coll :
        (d1.title = d2.title /\ d1.source = d2.source) => d1 = d2

\* an upsert that matched nothing is about to insert, and another caller's
\* document with the same title and source is there by now
C11_Witness ==
    \E c \in Inserting : Matching(coll, calls[c].title, calls[c].source) # {}

\* C20: a cleanup removes only documents older than seven days and returns
\* their number; it leaves nothing behind that is older, so that a cleanup
\* with nothing older than seven days in the collection returns 0 and
\* changes nothing.
C20_PurgeOnlyOlderThanRetention ==
    [][Cleanup =>
         /\ coll' \subseteq coll
         /\ \A d \in coll \ coll' : collNow - d.posted_at > RetentionDays
         /\ \A d \in coll' : collNow - d.posted_at <= RetentionDays
         /\ purged'.count = Cardinality(coll \ coll')
         /\ (\A d \in coll : collNow - d.posted_at <= RetentionDays)
               => (coll' = coll /\ purged'.count = 0)]_vars

\* a cleanup has just removed a document and kept one that is exactly seven
\* days old
C20_Witness ==
    /\ purged.at = collNow
    /\ purged.count >= 1
    /\ \E d \in coll : collNow - d.posted_at = RetentionDays

-----------------------------------------------------------------------------
(* One call of NewsFetcher.fetch_cricket_news *)

\* the longest feed
MaxEntries == 11

\* min(10, len(feed.entries)): the entries the loop considers
CandidateCap == 10

\* `if len(articles) >= 5: break`
ReturnCap == 5

\* a loop over the whole feed
max_articles_all(n) == n

\* max_articles = min(10, len(feed.entries))
max_articles(n) == IF CandidateCap < n THEN CandidateCap ELSE n

\* what the body of the loop can come to for one entry: an exception (the
\* entry lacks a link or a title), the page's image and description, or
\* (None, None) from extract_article_content and the summary of the entry
EntryOutcomes == {"raises", "enriched", "fallback"}

\* the dictionary appended for entry i
candidate(i, outcome) ==
    [entry |-> i,
     image_url |-> IF outcome = "enriched" THEN "img" ELSE "None",
     description |-> IF outcome = "enriched" THEN "page" ELSE "summary"]

\* feedparser.parse and `if not feed.entries`: a parse that raised and a
\* feed without entries both return []
ParseFeed ==
    /\ fetchPc = "start"
    /\ IF entries = None \/ entries = 0
       THEN fetchPc' = "returned" /\ UNCHANGED fetchI
       ELSE fetchPc' = "loop" /\ fetchI' = 1
    /\ UNCHANGED <<entries, fetchArticles, dueVars, schedVars, storeVars, collVars,
                   pipeVars, capVars, taskVars>>

\* one pass of the loop over feed.entries[:max_articles]: an entry whose
\* processing raises is left out, the others are appended, and the loop
\* breaks at five articles
ProcessEntry ==
    /\ fetchPc = "loop"
    /\ fetchI <= max_articles(entries)
    /\ \E outcome \in EntryOutcomes :
          IF outcome = "raises"
          THEN /\ fetchI' = fetchI + 1
               /\ UNCHANGED <<fetchPc, fetchArticles>>
          ELSE /\ fetchArticles' = Append(fetchArticles, candidate(fetchI, outcome))
               /\ fetchI' = fetchI + 1
               /\ fetchPc' = IF Len(fetchArticles') >= ReturnCap
                             THEN "returned" ELSE "loop"
    /\ UNCHANGED <<entries, dueVars, schedVars, storeVars, collVars, pipeVars,
                   capVars, taskVars>>

\* the loop runs out of entries: return articles
EndOfEntries ==
    /\ fetchPc = "loop"
    /\ fetchI > max_articles(entries)
    /\ fetchPc' = "returned"
    /\ UNCHANGED <<entries, fetchI, fetchArticles, dueVars, schedVars, storeVars,
                   collVars, pipeVars, capVars, taskVars>>

FetchInit ==
    /\ fetchPc = "start"
    /\ entries \in (0..MaxEntries) \cup {None}
    /\ fetchI = 0
    /\ fetchArticles = << >>
    /\ CapIdle
    /\ TaskIdle
    /\ SchedIdle
    /\ StoreIdle
    /\ CollIdle
    /\ PipeIdle
    /\ dueTask = CleanupTask
    /\ dueNow = 0
    /\ dueResult = FALSE
    /\ duePc = "input"

FetchNext ==
    \/ ParseFeed
    \/ ProcessEntry
    \/ EndOfEntries

FetchSpec == FetchInit /\ [][FetchNext]_vars

-----------------------------------------------------------------------------
(* Claim about the feed client: C21 *)

\* the entries of the feed that made it into `articles`
Fetched == {fetchArticles[k].entry : k \in DOMAIN fetchArticles}

\* C21: fetch_cricket_news never raises; what it returns holds at most five
\* items, each one of the first ten entries of the feed, in feed order; a
\* feed that is empty or whose parse failed gives the empty sequence; and an
\* entry whose processing raises, or whose page gave nothing, takes none of
\* the articles collected so far away and does not stop the loop
C21_FetchBoundedAndTolerant ==
    /\ [](/\ fetchPc \in {"idle", "start", "loop", "returned"}
          /\ Len(fetchArticles) <= ReturnCap
          /\ \A k \in DOMAIN fetchArticles :
                /\ fetchArticles[k].entry \in 1..CandidateCap
                /\ fetchArticles[k].entry <= entries
                /\ \A j \in DOMAIN fetchArticles :
                      j < k => fetchArticles[j].entry < fetchArticles[k].entry
          /\ (fetchPc = "returned" /\ (entries = None \/ entries = 0)
                => fetchArticles = << >>)
          /\ (fetchPc = "returned" /\ Len(fetchArticles) < ReturnCap /\ entries # None
                => fetchI > entries \/ fetchI > CandidateCap \/ entries = 0))
    /\ [][fetchPc = "loop" =>
             /\ fetchI' = fetchI + 1 \/ (fetchI' = fetchI /\ fetchPc' = "returned")
             /\ \/ fetchArticles' = fetchArticles
                \/ /\ Len(fetchArticles') = Len(fetchArticles) + 1
                   /\ SubSeq(fetchArticles', 1, Len(fetchArticles)) = fetchArticles
                   /\ fetchArticles'[Len(fetchArticles')].entry = fetchI]_vars

\* a feed longer than ten entries was fetched: two entries raised and one
\* page gave nothing, and five articles came back all the same, with a gap
\* where an entry raised
C21_Witness ==
    /\ fetchPc = "returned"
    /\ entries > CandidateCap
    /\ Len(fetchArticles) = ReturnCap
    /\ 1 \notin Fetched
    /\ 3 \notin Fetched
    /\ 2 \in Fetched
    /\ \E k \in DOMAIN fetchArticles : fetchArticles[k].image_url = "None"

-----------------------------------------------------------------------------
(* One call of TelegramBot.send_photo or send_message: the payload *)

(* A string is kept as the sequence of its parts, each a run of characters
   of one origin: [s, n, whole] is n characters of s, the whole of it or a
   prefix left by a slice.  The title, the description and the link hold no
   line break of their own. *)

\* the longest title, in steps of LengthStep characters
MaxTitleSteps == 9

\* the longest link, in steps of LengthStep characters
MaxLinkSteps == 2

\* the step between two drawn lengths
LengthStep == 500

\* `if len(caption) > 1024:` and `caption[:1020] + "..."`
CaptionCap  == 1024
CaptionKeep == 1020

\* `if len(message) > 4096:` and `message[:4090] + "..."`
TextCap  == 4096
TextKeep == 4090

\* article['description'][:200] in a caption, [:300] in a message
CaptionDescription == 200
TextDescription    == 300

Part(s, n) == [s |-> s, n |-> n, whole |-> TRUE]

Ellipsis == Part("...", 3)

Newlines == Part("\n\n", 2)

\* len(text)
RECURSIVE TextLen(_)
TextLen(t) == IF t = << >> THEN 0 ELSE Head(t).n + TextLen(Tail(t))

\* text[:k]
RECURSIVE Slice(_, _)
Slice(t, k) ==
    IF t = << >> \/ k = 0 THEN << >>
    ELSE IF Head(t).n <= k
         THEN <<Head(t)>> \o Slice(Tail(t), k - Head(t).n)
         ELSE <<[Head(t) EXCEPT !.n = k, !.whole = FALSE]>>

\* `if len(t) > cap: t = t[:keep] + "..."`
Capped(t, cap, keep) ==
    IF TextLen(t) > cap THEN Slice(t, keep) \o <<Ellipsis>> ELSE t

\* description[:k] + "..." if len(description) > k else description
Shortened(n, k) ==
    IF n > k THEN Slice(<<Part("description", n)>>, k) \o <<Ellipsis>>
    ELSE <<Part("description", n)>>

\* f"<b>{article['title']}</b>"
TitleLine(a) == <<Part("<b>", 3), Part("title", a.title), Part("</b>", 4)>>

\* f"<a href=\"{article['link']}\">Read full article</a>"
LinkLine(a) ==
    <<Part("<a href=\"", 9), Part("link", a.link), Part("\">Read full article</a>", 23)>>

\* the title, the description when there is one, the link, each after a
\* blank line; then the cap
Framed(a, k, cap, keep) ==
    Capped(TitleLine(a)
             \o (IF a.description > 0
                 THEN <<Newlines>> \o Shortened(a.description, k) ELSE << >>)
             \o <<Newlines>> \o LinkLine(a),
           cap, keep)

\* the caption send_photo posts
caption(a) == Framed(a, CaptionDescription, CaptionCap, CaptionKeep)

\* the text send_message posts
message(a) == Framed(a, TextDescription, TextCap, TextKeep)

\* post_articles: `if article.get('image_url'): send_photo else send_message`
BuildPayload ==
    /\ capPc = "input"
    /\ capPayload' = IF capArticle.image_url THEN caption(capArticle)
                     ELSE message(capArticle)
    /\ capPc' = "posted"
    /\ UNCHANGED <<capArticle, dueVars, schedVars, storeVars, collVars, pipeVars,
                   fetchVars, taskVars>>

\* the lengths drawn for the title, the description (0: none) and the link
TitleLengths == {10 + k * LengthStep : k \in 0..MaxTitleSteps}
DescriptionLengths == {0, 60, CaptionDescription, CaptionDescription + 1,
                       TextDescription, TextDescription + 1, 2 * LengthStep}
LinkLengths == {30 + k * LengthStep : k \in 0..MaxLinkSteps}

CapInit ==
    /\ capPc = "input"
    /\ capArticle \in [title : TitleLengths, description : DescriptionLengths,
                       link : LinkLengths, image_url : BOOLEAN]
    /\ capPayload = << >>
    /\ FetchIdle
    /\ TaskIdle
    /\ SchedIdle
    /\ StoreIdle
    /\ CollIdle
    /\ PipeIdle
    /\ dueTask = CleanupTask
    /\ dueNow = 0
    /\ dueResult = FALSE
    /\ duePc = "input"

CapNext == BuildPayload

CapSpec == CapInit /\ [][CapNext]_vars

-----------------------------------------------------------------------------
(* Claim about the payload: C22 *)

\* the cap of the payload built for the article
CapOf(a) == IF a.image_url THEN CaptionCap ELSE TextCap

\* the position of the last line break of a text, 0 when it has none
LastBreak(t) ==
    LET at == {i \in DOMAIN t : t[i].s = "\n\n"}
    IN  IF at = {} THEN 0 ELSE CHOOSE i \in at : \A j \in at : j <= i

\* the last line of a text
FinalLine(t) == SubSeq(t, LastBreak(t) + 1, Len(t))

\* C22: the payload handed to the sink is no longer than its cap (1024 for
\* a caption, 4096 for a text) and its last line is the anchor of the
\* article's link, whole, also when the payload was cut
C22_CappedPayloadEndsWithLink ==
    capPc = "posted" =>
        /\ TextLen(capPayload) <= CapOf(capArticle)
        /\ FinalLine(capPayload) = LinkLine(capArticle)

-----------------------------------------------------------------------------
(* run_task under faults: a started scheduler whose task threads end in every
   way run_task allows, next to one call the HTTP layer makes on its own *)

\* the number of 60-second sleeps of the loop
MaxTaskTicks == 1

\* a document of the registry naming a routine run_task does not know, such
\* as a task left in scheduler_tasks by another version of the program
LegacyTask ==
    [name     |-> "live_scores_hour_03",
     task     |-> "post_live_scores",
     schedule |-> [hour |-> 3, minute |-> 0],
     enabled  |-> TRUE,
     last_run |-> None]

\* a dispatch that falls back on the ingestion pipeline
RoutineDefaulting(task_name) ==
    IF task_name = "cleanup_old_articles" THEN "cleanup_old_articles"
    ELSE "fetch_and_post_cricket_news"

\* the if/elif/else of run_task: the routine a task identifier stands for,
\* "None" for an identifier that is not known
Routine(task_name) ==
    IF task_name = "fetch_and_post_cricket_news" THEN "fetch_and_post_cricket_news"
    ELSE IF task_name = "cleanup_old_articles" THEN "cleanup_old_articles"
    ELSE "None"

\* how a routine can end: it returns a success result, it returns an error
\* result, or it raises (MongoDBService() stands before its try)
RoutineOutcomes == {"success", "error", "raised"}

\* a run_task that leaves last_run alone when the routine raised
CallsUpdateOnReturn(outcome) == outcome \in {"success", "error"}

\* update_task_last_run is called after the routine returned (the try of
\* run_task) and after it raised (the except of run_task)
CallsUpdate(outcome) == outcome \in {"success", "error", "raised"}

\* one pass of `while self.running:` up to its sleep: every enabled task
\* that is due gets a thread of its own; get_scheduled_tasks answers [] when
\* the store fails
TaskPass ==
    /\ loopPc[1] = "ready"
    /\ IF running
       THEN /\ loopPc' = [loopPc EXCEPT ![1] = "sleeping"]
            /\ \E tasks \in {get_scheduled_tasks(tasksDb), {}} :
                  LET due == {t \in tasks : should_run_task(t, clock)}
                  IN  /\ execs' = execs \cup
                            {[name |-> t.name, task |-> t.task, started |-> clock,
                              by |-> 1] : t \in due}
                      /\ launched' =
                            {[name |-> t.name, at |-> clock, by |-> 1] : t \in due}
       ELSE /\ loopPc' = [loopPc EXCEPT ![1] = "dead"]
            /\ UNCHANGED <<execs, launched>>
    /\ UNCHANGED <<running, thread, callerPc, nStart, nStop, seededAt, stoppedAt, clock,
                   ticks, tasksDb, dueVars, storeVars, collVars, pipeVars, fetchVars,
                   capVars, taskVars>>

\* run_task(task) on its thread, from its first line to its last: an
\* unknown identifier is logged and the call returns; a known routine runs
\* and returns or raises, then update_task_last_run is called, which the
\* store takes or which fails and is swallowed
run_task(e) ==
    /\ e \in execs
    /\ execs' = execs \ {e}
    /\ IF Routine(e.task) = "None"
       THEN /\ attempts' = [outcome |-> "skipped", taken |-> FALSE]
            /\ UNCHANGED tasksDb
       ELSE \E outcome \in RoutineOutcomes : \E taken \in BOOLEAN :
               /\ attempts' = [outcome |-> outcome, taken |-> taken]
               /\ tasksDb' = IF CallsUpdate(outcome) /\ taken
                             THEN update_task_last_run(tasksDb, e.name, clock)
                             ELSE tasksDb
    /\ UNCHANGED <<running, thread, loopPc, callerPc, nStart, nStop, seededAt, stoppedAt,
                   clock, ticks, launched, manual, dueVars, storeVars, collVars, pipeVars,
                   fetchVars, capVars>>

\* time.sleep(60) ends; a task thread ends within MaxLatency ticks
TaskTick ==
    /\ ticks < MaxTaskTicks
    /\ loopPc[1] # "ready"
    /\ \A e \in execs : (clock + TickSeconds) - e.started <= MaxLatency * TickSeconds
    /\ clock' = clock + TickSeconds
    /\ ticks' = ticks + 1
    /\ loopPc' = [l \in LoopIds |-> IF loopPc[l] = "sleeping" THEN "ready" ELSE loopPc[l]]
    /\ UNCHANGED <<running, thread, callerPc, nStart, nStop, seededAt, stoppedAt, tasksDb,
                   execs, launched, dueVars, storeVars, collVars, pipeVars, fetchVars,
                   capVars, taskVars>>

\* stop() clears the flag
TaskStop ==
    /\ manual = "None"
    /\ manual' = "stop"
    /\ running' = FALSE
    /\ UNCHANGED <<thread, loopPc, callerPc, nStart, nStop, seededAt, stoppedAt, clock,
                   ticks, tasksDb, execs, launched, attempts, dueVars, storeVars,
                   collVars, pipeVars, fetchVars, capVars>>

\* POST /api/trigger: fetch_and_post_cricket_news() called directly, which
\* reads and writes news_articles and bot_status only
Trigger ==
    /\ manual = "None"
    /\ manual' = "trigger"
    /\ UNCHANGED <<schedVars, attempts, dueVars, storeVars, collVars, pipeVars,
                   fetchVars, capVars>>

\* POST /api/cleanup: MongoDBService.cleanup_old_articles() called directly
ManualCleanup ==
    /\ manual = "None"
    /\ manual' = "cleanup"
    /\ UNCHANGED <<schedVars, attempts, dueVars, storeVars, collVars, pipeVars,
                   fetchVars, capVars>>

\* MongoDBScheduler.setup_scheduled_tasks called again
Reseed ==
    /\ manual = "None"
    /\ manual' = "seed"
    /\ tasksDb' = setup_scheduled_tasks(tasksDb)
    /\ UNCHANGED <<running, thread, loopPc, callerPc, nStart, nStop, seededAt, stoppedAt,
                   clock, ticks, execs, launched, attempts, dueVars, storeVars, collVars,
                   pipeVars, fetchVars, capVars>>

\* a scheduler started two minutes before 03:00, when the ingestion task of
\* the hour, the cleanup task and the legacy task fall due; `launched` holds
\* the threads the latest pass of the loop started
TaskInit ==
    /\ running = TRUE
    /\ thread = 1
    /\ loopPc = [l \in LoopIds |-> IF l = 1 THEN "ready" ELSE "none"]
    /\ callerPc = "idle"
    /\ nStart = 1
    /\ nStop = 0
    /\ clock = Day + 2 * Hour + 58 * Minute
    /\ seededAt = clock
    /\ stoppedAt = None
    /\ ticks = 0
    /\ tasksDb = [n \in SeedNames \cup {LegacyTask.name} |->
                     IF n \in SeedNames THEN SeedTask(n) ELSE LegacyTask]
    /\ execs = {}
    /\ launched = {}
    /\ attempts = NoAttempt
    /\ manual = "None"
    /\ FetchIdle
    /\ CapIdle
    /\ StoreIdle
    /\ CollIdle
    /\ PipeIdle
    /\ dueTask = CleanupTask
    /\ dueNow = 0
    /\ dueResult = FALSE
    /\ duePc = "input"

TaskNext ==
    \/ TaskPass
    \/ \E e \in execs : run_task(e)
    \/ TaskTick
    \/ TaskStop
    \/ Trigger
    \/ ManualCleanup
    \/ Reseed

TaskSpec == TaskInit /\ [][TaskNext]_vars

-----------------------------------------------------------------------------
(* Claims about task execution: C23, C24, C30 *)

\* the routine identifiers run_task knows
KnownRoutines == {"fetch_and_post_cricket_news", "cleanup_old_articles"}

\* the task threads that end in a step
Ending == execs \ execs'

\* C23: when run_task of a known routine ends, however the routine went
\* (success result, error result, exception), last_run of its task is the
\* time of the end, provided the store took the write; and a task whose
\* last_run lies less than its minimum spacing back is given no new thread
C23_LastRunSetAfterEveryAttempt ==
    [][/\ \A e \in Ending :
             e.task \in KnownRoutines /\ attempts'.taken
                => /\ attempts'.outcome \in RoutineOutcomes
                   /\ tasksDb'[e.name].last_run = clock
       /\ \A n \in DOMAIN tasksDb :
             /\ tasksDb[n].last_run # None
             /\ clock - tasksDb[n].last_run < Spacing(tasksDb[n])
             => \A l \in launched' \ launched : l.name # n]_vars

\* a routine raised and last_run was written all the same; one tick later
\* the loop has passed again with the task still inside its window, started
\* threads for other tasks, and none for the task that ran
C23_Witness ==
    /\ attempts = [outcome |-> "raised", taken |-> TRUE]
    /\ loopPc[1] = "sleeping"
    /\ launched # {}
    /\ \A l \in launched : l.at = clock
    /\ \E n \in DOMAIN tasksDb :
          /\ tasksDb[n].last_run # None
          /\ tasksDb[n].last_run < clock
          /\ ~OutsideTolerance(time_diff(tasksDb[n], clock))
          /\ \A l \in launched : l.name # n
          /\ \A m \in DOMAIN tasksDb \ {n} : tasksDb[m].last_run = None

\* C24: the loop thread ends only in a pass that finds the flag cleared, and
\* otherwise goes to its next sleep; the end of a task thread, whatever it
\* was (routine raised, unknown identifier, refused write of last_run),
\* leaves the loop, the flag and the other threads as they are; a pass that
\* starts a thread starts one for every task due at that time; and a task of
\* unknown routine ends without a routine run and without a write
C24_TaskFaultsStayInTheirThread ==
    [][/\ (loopPc[1] # "dead" /\ loopPc'[1] = "dead") => ~running
       /\ (loopPc[1] = "ready" /\ running /\ loopPc' # loopPc) => loopPc'[1] = "sleeping"
       /\ \A e \in Ending :
             /\ execs' = execs \ {e}
             /\ loopPc' = loopPc
             /\ running' = running
             /\ launched' = launched
             /\ e.task \notin KnownRoutines =>
                   /\ attempts' = [outcome |-> "skipped", taken |-> FALSE]
                   /\ tasksDb' = tasksDb
       /\ (launched' # launched /\ launched' # {}) =>
             /\ launched' = {[name |-> t.name, at |-> clock, by |-> 1] : t \in DueTasks}
             /\ execs' = execs \cup
                   {[name |-> t.name, task |-> t.task, started |-> clock, by |-> 1]
                      : t \in DueTasks}]_vars

\* a routine has raised and the write of last_run was refused; the loop is
\* alive one tick on and its latest pass started a thread for each of the
\* three tasks due then, the one of unknown routine among them
C24_Witness ==
    /\ attempts = [outcome |-> "raised", taken |-> FALSE]
    /\ ticks >= 1
    /\ running
    /\ loopPc[1] = "sleeping"
    /\ {l.name : l \in {k \in launched : k.at = clock}}
          = {HourlyName(3), CleanupName, LegacyTask.name}

\* C30: no step that changes the registry removes a task or changes the
\* name, routine, schedule or enabled flag of one; last_run of a task changes only in a step that ends
\* a run_task thread of that task, and becomes the time of that end; and a
\* call from outside the scheduler (manual trigger, manual cleanup,
\* re-seeding, stop) leaves the registry as it is
C30_OnlyRunTaskWritesLastRun ==
    [][/\ tasksDb' # tasksDb =>
             /\ DOMAIN tasksDb \subseteq DOMAIN tasksDb'
             /\ \A n \in DOMAIN tasksDb :
                   /\ tasksDb'[n].name = tasksDb[n].name
                   /\ tasksDb'[n].task = tasksDb[n].task
                   /\ tasksDb'[n].schedule = tasksDb[n].schedule
                   /\ tasksDb'[n].enabled = tasksDb[n].enabled
                   /\ tasksDb'[n].last_run # tasksDb[n].last_run =>
                         /\ \E e \in Ending : e.name = n /\ e.task \in KnownRoutines
                         /\ tasksDb'[n].last_run = clock
       /\ manual' # manual => tasksDb' = tasksDb]_vars

\* the registry was seeded again after run_task had written a last_run, and
\* the last_run is still there
C30_Witness ==
    /\ manual = "seed"
    /\ attempts.taken
    /\ \E n \in DOMAIN tasksDb : tasksDb[n].last_run # None

-----------------------------------------------------------------------------
(* One invocation of the cleanup routine, cleanup_old_articles of tasks.py *)

\* the latest day an article of the collection was stored on
MaxPostedAt == 2

\* the day of the invocation: articles stored on day 0 are older than the
\* retention, those of the later days are not
CleanDay == RetentionDays + 1

\* the collections news_articles the routine can find: at most one document
\* for each (title, source)
CleanStores ==
    {c0 \in SUBSET [title : {"A", "B"}, source : {"ESPN"}, posted_at : 0..MaxPostedAt,
                    is_posted : BOOLEAN] :
        \A d, e \in c0 : (d.title = e.title /\ d.source = e.source) => d = e}

\* mongodb_service = MongoDBService(), before the try block
CleanConstruct ==
    /\ pipePc = "start"
    /\ \E fault \in BOOLEAN :
          /\ trace' = Append(trace, Call("MongoDBService", NoKey, fault, ~fault))
          /\ pipePc' = IF fault THEN "raised" ELSE "purge"
          /\ error' = IF fault THEN "mongo" ELSE error
    /\ UNCHANGED <<rss, before, stored, bot_status, fetched, new_articles, idx, posted_count,
                   returned, dueVars, schedVars, storeVars, collVars, unitVars>>

\* cleaned_count = mongodb_service.cleanup_old_articles(), which answers 0
\* when the store fails, and the return of the success result
CleanPurge ==
    /\ pipePc = "purge"
    /\ \E fault \in BOOLEAN :
          LET cleaned_count == IF fault THEN 0 ELSE deleted_count(stored, collNow)
          IN  /\ stored' = IF fault THEN stored ELSE delete_many(stored, collNow)
              /\ trace' = Append(trace, Call("cleanup_old_articles", NoKey, fault, ~fault))
              /\ returned' = [status |-> "success", cleaned_articles |-> cleaned_count]
    /\ pipePc' = "returned"
    /\ UNCHANGED <<rss, before, bot_status, fetched, new_articles, idx, posted_count, error,
                   dueVars, schedVars, storeVars, collVars, unitVars>>

\* cleanup_old_articles() is called by run_task
CleanInit ==
    /\ pipePc = "start"
    /\ rss = << >>
    /\ stored \in CleanStores
    /\ bot_status \in {<< >>, <<OldStatus>>}
    /\ before = [stored |-> stored, bot_status |-> bot_status]
    /\ fetched = << >>
    /\ new_articles = << >>
    /\ idx = 0
    /\ posted_count = 0
    /\ error = "None"
    /\ trace = << >>
    /\ returned = NoResult
    /\ coll = {}
    /\ collNextId = 0
    /\ collNow = CleanDay
    /\ collTicks = 0
    /\ calls = [c \in CallerIds |-> NoCall]
    /\ purged = [at |-> None, count |-> 0]
    /\ StoreIdle
    /\ SchedIdle
    /\ UnitIdle
    /\ dueTask = CleanupTask
    /\ dueNow = 0
    /\ dueResult = FALSE
    /\ duePc = "input"

CleanNext ==
    \/ CleanConstruct
    \/ CleanPurge

CleanSpec == CleanInit /\ [][CleanNext]_vars

-----------------------------------------------------------------------------
(* Claim about the cleanup routine: C29 *)

\* C29: an execution of the cleanup routine that has come to its end has
\* added exactly one record to bot_status
C29_CleanupWritesOneStatus ==
    pipePc = "returned" => Len(bot_status) = Len(before.bot_status) + 1

-----------------------------------------------------------------------------
(* Pipeline runs that do not overlap: an invocation of                     *)
(* fetch_and_post_cricket_news begins when every earlier one has returned  *)

\* no run is under way
NoRunUnderWay == \A q \in RunIds : runs[q].pc \in {"idle", "done"}

\* fetch_and_post_cricket_news() is called while no other call is under way
SeqProbe(r) == NoRunUnderWay /\ Probe(r)

\* The find_one of save_article (FindExisting) is no step of these runs: it
\* is reached when update_one created nothing, that is when another run
\* created the document between this run's article_exists and its
\* save_article, and C31_StoreSeesEachRunAlone states that this never happens.
SeqNext ==
    \/ StoreTick
    \/ \E r \in RunIds :
          \/ SeqProbe(r)
          \/ Fetch(r)
          \/ Exists(r)
          \/ SaveArticle(r)
          \/ EndFilter(r)
          \/ Send(r)
          \/ Finish(r)

SeqSpec == StoreInit /\ [][SeqNext]_vars

-----------------------------------------------------------------------------
(* Claims about runs that do not overlap: C31 *)

\* at most one run is under way, and no save_article finds the document
\* created by someone else since the run's own check
C31_StoreSeesEachRunAlone ==
    /\ \A r1, r2 \in RunIds :
          (r1 # r2 /\ runs[r1].pc \notin {"idle", "done"}) => runs[r2].pc \in {"idle", "done"}
    /\ \A r \in RunIds : runs[r].pc # "find"

\* C31: with pipeline runs that do not overlap, a store that works and no
\* purge, the articles of one (title, source) key are handed to the Telegram
\* client by one run at most, and a key whose delivery failed is not taken
\* as new by any later run.
C31_KeyDeliveredInOneRunOnly ==
    /\ C31_StoreSeesEachRunAlone
    /\ \A d1, d2 \in deliveries : d1.key = d2.key => d1.run = d2.run
    /\ \A d \in deliveries : \A r \in RunIds :
          (~d.ok /\ r > d.run) => d.key \notin Handled(r)

\* a later run has fetched an article whose key an earlier run stored and
\* failed to deliver, has gone through its filter loop, and delivers other
\* articles without it
C31_Witness ==
    \E d \in deliveries : \E r \in RunIds :
        /\ ~d.ok
        /\ r > d.run
        /\ runs[r].pc = "mark"
        /\ \E j \in DOMAIN runs[r].articles : Key(runs[r].articles[j]) = d.key
        /\ d.key \notin Handled(r)
        /\ ~articles[d.key].is_posted

-----------------------------------------------------------------------------
(* Claim about the store faults of one invocation: C32 *)

\* C32: every article handed to the Telegram client has a document of its
\* (title, source) in news_articles at that moment; an article whose
\* save_article failed is not sent.  (No step of an invocation removes a
\* document, so a key absent now was absent when the send was made.)
C32_DeliveredOnlyWhenStored ==
    \A i \in DOMAIN trace :
        trace[i].op \in SendOps => trace[i].key \in DOMAIN stored

-----------------------------------------------------------------------------
(* The loop of a scheduler that stays running, over more than one day *)

\* the number of 60-second sleeps followed: a day and six minutes
MaxLiveTicks == 1446

\* the tasks an operator has left enabled in scheduler_tasks: the cleanup
\* alone, the ingestion of midnight alone, or both tasks of 03:00
EnabledSets == {{CleanupName}, {HourlyName(0)}, {HourlyName(3), CleanupName}}

\* the scheduler was started three minutes before 03:00 or before midnight
LiveClocks == {Day + 2 * Hour + 57 * Minute, Day + 23 * Hour + 57 * Minute}

\* time.sleep(60) of the loop ends: as Advance, over the longer span
LiveAdvance ==
    /\ ticks < MaxLiveTicks
    /\ \A l \in LoopIds : loopPc[l] # "ready"
    /\ \A e \in execs : (clock + TickSeconds) - e.started <= MaxLatency * TickSeconds
    /\ clock' = clock + TickSeconds
    /\ ticks' = ticks + 1
    /\ loopPc' = [l \in LoopIds |-> IF loopPc[l] = "sleeping" THEN "ready" ELSE loopPc[l]]
    /\ UNCHANGED <<running, thread, callerPc, nStart, nStop, seededAt, stoppedAt, tasksDb,
                   execs, launched, dueVars, storeVars, collVars, pipeVars, unitVars>>

\* start() has returned: the registry is seeded, the flag is set and the loop
\* thread is about to make its first pass
LiveInit ==
    /\ running = TRUE
    /\ thread = 1
    /\ loopPc = [l \in LoopIds |-> IF l = 1 THEN "ready" ELSE "none"]
    /\ callerPc = "idle"
    /\ nStart = 1
    /\ nStop = 0
    /\ clock \in LiveClocks
    /\ seededAt = clock
    /\ stoppedAt = None
    /\ ticks = 0
    /\ \E on \in EnabledSets :
          tasksDb = [n \in SeedNames |-> [SeedTask(n) EXCEPT !.enabled = n \in on]]
    /\ execs = {}
    /\ launched = {}
    /\ dueTask = CleanupTask
    /\ dueNow = 0
    /\ dueResult = FALSE
    /\ duePc = "input"
    /\ StoreIdle
    /\ CollIdle
    /\ PipeIdle
    /\ UnitIdle

LiveNext ==
    \/ \E l \in LoopIds : LoopStep(l)
    \/ \E e \in execs : ExecFinish(e)
    \/ LiveAdvance

\* the loop thread and the task threads are scheduled, and the sleeps end
LiveSpec ==
    /\ LiveInit
    /\ [][LiveNext]_vars
    /\ WF_vars(LiveAdvance)
    /\ \A l \in LoopIds : WF_vars(LoopStep(l))
    /\ WF_vars(\E e \in execs : ExecFinish(e))

-----------------------------------------------------------------------------
(* Claim about the launches of a running scheduler: C33 *)

\* the tolerance window of task t on day d: from two minutes before its
\* scheduled time to the end of the second minute after it
WindowStart(t, d) == d * Day + t.schedule.hour * Hour + t.schedule.minute * Minute - 2 * Minute
WindowEnd(t, d)   == d * Day + t.schedule.hour * Hour + t.schedule.minute * Minute + 3 * Minute - 1

\* the last second the model follows the scheduler to
LiveEnd == seededAt + MaxLiveTicks * TickSeconds

\* the days on which the whole window of t passes while the scheduler is followed
Occurrences(t) ==
    {d \in 1..3 : seededAt <= WindowStart(t, d) /\ WindowEnd(t, d) <= LiveEnd}

\* a thread of task t was started inside its window of day d
LaunchedIn(t, d) ==
    \E x \in launched : x.name = t.name /\ WindowStart(t, d) <= x.at /\ x.at <= WindowEnd(t, d)

\* every enabled task has been launched in each of its windows
EveryOccurrenceLaunched ==
    \A t \in get_scheduled_tasks(tasksDb) : \A d \in Occurrences(t) : LaunchedIn(t, d)

\* C33: while the scheduler stays running and scheduler_tasks can be read,
\* every enabled task is launched at least once during each daily occurrence
\* of its tolerance window.
C33_EveryEnabledTaskLaunchedEachDay == <>EveryOccurrenceLaunched

\* the cleanup task, run on one day, has been launched again in its window
\* of the next day, after should_run_task compared the time since last_run
\* with the 23 hours
C33_Witness ==
    \E t \in get_scheduled_tasks(tasksDb) :
        /\ t.name = CleanupName
        /\ Cardinality(Occurrences(t)) = 2
        /\ \A d \in Occurrences(t) : LaunchedIn(t, d)
        /\ t.last_run # None
        /\ \E x \in launched : x.name = t.name /\ x.at - t.last_run >= DailyMinInterval

=============================================================================
